---- MODULE Spec2Model ----
(***************************************************************************)
(* A model of the reactrust runtime: the instant scheduler (runtime.rs),   *)
(* the continuation algebra (continuations.rs), the signal runtime         *)
(* (signals/runtime.rs) and the process combinators (processes.rs,         *)
(* signals/signals.rs).                                                    *)
(*                                                                         *)
(* Continuations and processes are first-order terms (records with a       *)
(* "kind" field, one kind per Rust struct or closure).  Call and           *)
(* ProcessCall interpret them exactly as the corresponding `call` methods  *)
(* do: a task popped from a pool runs to completion, with every nested     *)
(* call it makes, inside one step of the model.                            *)
(*                                                                         *)
(* The interpreter works on a machine record M that bundles the variables; *)
(* its fields hist, nid and instant are history (ghost) fields: they       *)
(* record what ran and when, and no modelled code reads them.              *)
(***************************************************************************)
EXTENDS Integers, Sequences, FiniteSets, TLC

VARIABLES
  current_instant_tasks,  \* Runtime.current_instant_tasks (Vec, popped from the end)
  end_of_instant_tasks,   \* Runtime.end_of_instant_tasks
  next_instant_tasks,     \* Runtime.next_instant_tasks
  signal_runtime,         \* one SignalRuntime per signal
  heap,                   \* the Rc<Cell<Option<..>>> cells of join points and present
  return_value,           \* execute_process's result cell
  env,                    \* the Rc<Cell<..>> flags captured by the tests' closures
  panic,                  \* "" or the reason the program halted (failed unwrap / assert_eq!)
  pc,                     \* where the driver is: current, end_of_instant, idle, returned, done, panicked
  driver,                 \* "execute_process", "execute", or "runtime" (instant() called by hand, as the tests do)
  program,                \* the seed given at construction
  instant,                \* history: number of the instant being run (1-based)
  hist,                   \* history: the events observed so far
  nid,                    \* history: next event identity
  gathered                \* history: gathered[j][s] is current_value of s when the current phase of instant j ended

vars == <<current_instant_tasks, end_of_instant_tasks, next_instant_tasks,
          signal_runtime, heap, return_value, env, panic, pc, driver, program,
          instant, hist, nid, gathered>>

-----------------------------------------------------------------------------
(* Bounds of the model.                                                    *)

\* Longest chain of nested pause() in a seed, and longest delay before an agent starts.
MaxPauses == 2
\* Largest number of iterations of a loop, besides the numbers the tests use.
MaxIterations == 3
\* A task runs for at most 2^RunDepth calls.
RunDepth == 12
\* Number of times instant() is called by hand when the runtime is driven directly.
MaxInstantCalls == 4

-----------------------------------------------------------------------------
(* Option<T>, unit.                                                        *)

None == [some |-> FALSE]
Some(x) == [some |-> TRUE, v |-> x]
\* The value (), which carries no information; written as a number so that it
\* can stand where the values of other processes stand.
Unit == 0

-----------------------------------------------------------------------------
(* Signals.  A signal is named after its default value and gather function.*)

Signals == {"pure", "last", "vec"}

\* The default value given to SignalRuntime::new.
DefaultValue(s) ==
  CASE s = "pure" -> Unit
    [] s = "last" -> 0
    [] s = "vec"  -> << >>

\* The gather function given to SignalRuntime::new, applied to emission e and accumulator v.
GatherFunction(s, e, v) ==
  CASE s = "pure" -> v
    [] s = "last" -> e
    [] s = "vec"  -> Append(v, e)

SignalRuntime_new(s) ==
  [ is_currently_emitted            |-> FALSE,
    call_on_present                 |-> << >>,
    call_later_on_present           |-> << >>,
    call_later_on_absent            |-> << >>,
    call_later_on_absent_registered |-> FALSE,
    current_value                   |-> DefaultValue(s),
    previous_value                  |-> None ]

-----------------------------------------------------------------------------
(* History events.                                                         *)

Event(ev, what, s, id, at, v) ==
  [ev |-> ev, what |-> what, s |-> s, id |-> id, at |-> at, v |-> v]

Log(M, ev, what, s, id, v) ==
  [M EXCEPT !.hist = Append(@, Event(ev, what, s, id, M.instant, v))]

\* Allocates an identity for a registration or a closure.
Fresh(M) == [M EXCEPT !.nid = @ + 1]

Halt(M, reason) == [M EXCEPT !.panic = reason]

-----------------------------------------------------------------------------
(* Runtime: the three pools.                                               *)

\* on_current_instant, were it to put the continuation under the ones waiting.
on_current_instant_at_front(M, c) == [M EXCEPT !.cur = <<c>> \o @]

on_current_instant(M, c) == [M EXCEPT !.cur = Append(@, c)]

\* on_next_instant, were it to keep only the continuation registered last.
on_next_instant_replacing(M, c) == [M EXCEPT !.nxt = <<c>>]

on_next_instant(M, c) == [M EXCEPT !.nxt = Append(@, c)]

on_end_of_instant(M, c) == [M EXCEPT !.eoi = Append(@, c)]

-----------------------------------------------------------------------------
(* Continuation::call, Process::call and ProcessMut::call_mut.  A call is  *)
(* laid on M.todo; Run, below, executes the calls of a task depth first:   *)
(* the calls a call makes run, in the order made, before the calls that    *)
(* were waiting when it started.  This is the order of the nested Rust     *)
(* calls, laid out flat.                                                   *)

Call(k, value, M) ==
  [M EXCEPT !.todo = Append(@, [op |-> "call", target |-> k, arg |-> value])]

ProcessCall(p, next, M) ==
  [M EXCEPT !.todo = Append(@, [op |-> "process_call", target |-> p, arg |-> next])]

ProcessCallMut(p, next, M) ==
  [M EXCEPT !.todo = Append(@, [op |-> "process_call_mut", target |-> p, arg |-> next])]

-----------------------------------------------------------------------------
(* Signal runtime (signals/runtime.rs).                                    *)

\* The closure pushed by add_update_on_end_of_instant.
UpdateClosure(s) == [kind |-> "update_on_end_of_instant", signal |-> s]

\* The closure that feeds previous_value to a later_on_present continuation.
LaterOnPresentClosure(s, c) ==
  [kind |-> "later_on_present_closure", signal |-> s, continuation |-> c]

\* The closure pushed by later_on_absent: it flushes call_later_on_absent.
LaterOnAbsentClosure(s) == [kind |-> "later_on_absent_closure", signal |-> s]

gather_value(M, s, value) ==
  [M EXCEPT !.sig[s].current_value = GatherFunction(s, value, @)]

\* add_update_on_end_of_instant, were it to hand the update closure to the
\* current instant.
add_update_on_current_instant(M, s) == on_current_instant(M, UpdateClosure(s))

add_update_on_end_of_instant(M, s) == on_end_of_instant(M, UpdateClosure(s))

\* The closure of add_update_on_end_of_instant, were it to reset current_value
\* before saving it as previous_value.
update_on_end_of_instant_reset_first(M, s) ==
  [M EXCEPT !.sig[s].is_currently_emitted  = FALSE,
            !.sig[s].call_on_present       = << >>,
            !.sig[s].call_later_on_present = << >>,
            !.sig[s].previous_value        = Some(DefaultValue(s)),
            !.sig[s].current_value         = DefaultValue(s)]

\* The closure of add_update_on_end_of_instant, were it to leave current_value
\* as the instant gathered it.
update_on_end_of_instant_keeping_value(M, s) ==
  [M EXCEPT !.sig[s].is_currently_emitted  = FALSE,
            !.sig[s].call_on_present       = << >>,
            !.sig[s].call_later_on_present = << >>,
            !.sig[s].previous_value        = Some(M.sig[s].current_value)]

\* Body of the closure of add_update_on_end_of_instant.
update_on_end_of_instant(M, s) ==
  [M EXCEPT !.sig[s].is_currently_emitted  = FALSE,
            !.sig[s].call_on_present       = << >>,
            !.sig[s].call_later_on_present = << >>,
            !.sig[s].previous_value        = Some(M.sig[s].current_value),
            !.sig[s].current_value         = DefaultValue(s)]

RECURSIVE CallAll(_, _)
\* Calls the continuations of q one after the other.
CallAll(q, M) == IF q = << >> THEN M ELSE CallAll(Tail(q), Call(Head(q), Unit, M))

\* add_on_present_continuations_to_runtime, were it to call the waiting
\* continuations on the spot instead of handing them to the current instant.
add_on_present_continuations_called_now(M, s) ==
  CallAll(M.sig[s].call_on_present, [M EXCEPT !.sig[s].call_on_present = << >>])

\* add_on_present_continuations_to_runtime, were it to hand the waiting
\* continuations to the next instant.
add_on_present_continuations_to_next(M, s) ==
  [M EXCEPT !.nxt = @ \o M.sig[s].call_on_present,
            !.sig[s].call_on_present = << >>]

\* add_on_present_continuations_to_runtime, were it to hand every waiting
\* continuation over twice.
add_on_present_continuations_twice(M, s) ==
  [M EXCEPT !.cur = @ \o M.sig[s].call_on_present \o M.sig[s].call_on_present,
            !.sig[s].call_on_present = << >>]

add_on_present_continuations_to_runtime(M, s) ==
  [M EXCEPT !.cur = @ \o M.sig[s].call_on_present,
            !.sig[s].call_on_present = << >>]

add_later_on_present_continuations_to_runtime(M, s) ==
  LET q == M.sig[s].call_later_on_present
  IN  [M EXCEPT !.nxt = @ \o [i \in 1..Len(q) |-> LaterOnPresentClosure(s, q[i])],
                !.sig[s].call_later_on_present = << >>]

add_later_on_absent_continuations_to_runtime(M, s) ==
  [M EXCEPT !.nxt = @ \o M.sig[s].call_later_on_absent,
            !.sig[s].call_later_on_absent = << >>]

\* emit, were it to go on when the signal is already emitted.
emit_unguarded(M, s, value) ==
  LET M1 == [M EXCEPT !.sig[s].is_currently_emitted = TRUE]
      M2 == add_update_on_end_of_instant(M1, s)
      M3 == gather_value(M2, s, value)
      M4 == [M3 EXCEPT !.sig[s].call_later_on_absent = << >>,
                       !.sig[s].call_later_on_absent_registered = FALSE]
      M5 == add_on_present_continuations_to_runtime(M4, s)
  IN  add_later_on_present_continuations_to_runtime(M5, s)

\* emit, were it not to register the end-of-instant update of the signal.
emit_without_update(M, s, value) ==
  IF M.sig[s].is_currently_emitted
  THEN M
  ELSE LET M1 == [M EXCEPT !.sig[s].is_currently_emitted = TRUE]
           M3 == gather_value(M1, s, value)
           M4 == [M3 EXCEPT !.sig[s].call_later_on_absent = << >>,
                            !.sig[s].call_later_on_absent_registered = FALSE]
           M5 == add_on_present_continuations_to_runtime(M4, s)
       IN  add_later_on_present_continuations_to_runtime(M5, s)

emit(M, s, value) ==
  IF M.sig[s].is_currently_emitted
  THEN M
  ELSE LET M1 == [M EXCEPT !.sig[s].is_currently_emitted = TRUE]
           M2 == add_update_on_end_of_instant(M1, s)
           M3 == gather_value(M2, s, value)
           M4 == [M3 EXCEPT !.sig[s].call_later_on_absent = << >>,
                            !.sig[s].call_later_on_absent_registered = FALSE]
           M5 == add_on_present_continuations_to_runtime(M4, s)
       IN  add_later_on_present_continuations_to_runtime(M5, s)

\* History: what emit may touch, the signal runtime and the three pools.
Frame(M, s) == [sig |-> M.sig[s], cur |-> M.cur, eoi |-> M.eoi, nxt |-> M.nxt]

\* History: emit, recorded as the first emission of the instant or as a
\* repeated one; a repeated one is recorded with the frame before and after it.
emit_logged(M, s, value) ==
  LET R == emit(M, s, value)
  IN  IF M.sig[s].is_currently_emitted
      THEN Log(Log(R, "emit", "ignored", s, 0, value),
               "frame", "emit", s, 0, <<Frame(M, s), Frame(R, s)>>)
      ELSE Log(R, "emit", "first", s, 0, value)

\* on_present, were it to queue the continuation whatever the emit state.
on_present_always_queued(M, s, c) ==
  [M EXCEPT !.sig[s].call_on_present = Append(@, c)]

on_present(M, s, c) ==
  IF M.sig[s].is_currently_emitted
  THEN on_current_instant(M, c)
  ELSE [M EXCEPT !.sig[s].call_on_present = Append(@, c)]

later_on_present(M, s, c) ==
  IF M.sig[s].is_currently_emitted
  THEN on_next_instant(M, LaterOnPresentClosure(s, c))
  ELSE [M EXCEPT !.sig[s].call_later_on_present = Append(@, c)]

\* later_on_absent, were it to queue the continuation whatever the emit state.
later_on_absent_always_queued(M, s, c) ==
  LET M1 == [M EXCEPT !.sig[s].call_later_on_absent = Append(@, c)]
  IN  IF ~ M1.sig[s].call_later_on_absent_registered
      THEN [on_next_instant(M1, LaterOnAbsentClosure(s))
              EXCEPT !.sig[s].call_later_on_absent_registered = TRUE]
      ELSE M1

\* later_on_absent, were it to push a flusher with every registration.
later_on_absent_unguarded(M, s, c) ==
  IF M.sig[s].is_currently_emitted
  THEN M
  ELSE LET M1 == [M EXCEPT !.sig[s].call_later_on_absent = Append(@, c)]
       IN  [on_next_instant(M1, LaterOnAbsentClosure(s))
              EXCEPT !.sig[s].call_later_on_absent_registered = TRUE]

later_on_absent(M, s, c) ==
  IF M.sig[s].is_currently_emitted
  THEN M
  ELSE LET M1 == [M EXCEPT !.sig[s].call_later_on_absent = Append(@, c)]
       IN  IF ~ M1.sig[s].call_later_on_absent_registered
           THEN [on_next_instant(M1, LaterOnAbsentClosure(s))
                   EXCEPT !.sig[s].call_later_on_absent_registered = TRUE]
           ELSE M1

\* History: later_on_absent, recorded with the frame before and after it when
\* it is called on a signal that is already emitted.
later_on_absent_logged(M, s, c) ==
  LET R == later_on_absent(M, s, c)
  IN  IF M.sig[s].is_currently_emitted
      THEN Log(R, "frame", "later_on_absent", s, c.id, <<Frame(M, s), Frame(R, s)>>)
      ELSE R

-----------------------------------------------------------------------------
(* Functions given to map (the closures of the tests and of the family of  *)
(* programs run).  ApplyFn returns the result and the machine after        *)
(* the closure's side effects; a failed assert_eq! halts the program.      *)

Fn(name) == [fn |-> name, captured |-> Unit]
\* |_| q : the closure given to and_then, which returns the process to run next.
Then(q) == [fn |-> "then", captured |-> q]

\* LoopStatus<V>
Continue == [status |-> "Continue", output |-> Unit]
Exit(output) == [status |-> "Exit", output |-> output]

\* The closures of the test count_using_while: sum adds one to the shared
\* counter, test_loop_end exits with the counter once it has reached n.
test_loop_end(n) == [fn |-> "test_loop_end", captured |-> n]

\* The closures of the test count_using_signal_values: update_signal_value adds
\* the value received to signal_value_sum, loop_map counts the iterations and
\* exits at the n-th.
loop_map(n) == [fn |-> "loop_map", captured |-> n]

ApplyFn(f, v, M) ==
  CASE f.fn = "double" -> [value |-> 2 * v, M |-> M]
    [] f.fn = "sum"    -> [value |-> v[1] + v[2], M |-> M]
    [] f.fn = "then"   -> [value |-> f.captured, M |-> M]
    [] f.fn = "emitted" ->
         [value |-> Unit,
          M |-> IF M.env.received # FALSE
                THEN Halt(M, "assert_eq")
                ELSE [M EXCEPT !.env.emitted = TRUE]]
    [] f.fn = "received" ->
         [value |-> Unit,
          M |-> IF M.env.emitted # TRUE
                THEN Halt(M, "assert_eq")
                ELSE [M EXCEPT !.env.received = TRUE]]
    [] f.fn = "sum_counter" ->
         [value |-> Unit, M |-> [M EXCEPT !.env.counter = @ + 1]]
    [] f.fn = "test_loop_end" ->
         [value |-> IF M.env.counter = f.captured THEN Exit(f.captured) ELSE Continue,
          M |-> M]
    [] f.fn = "update_signal_value" ->
         [value |-> Unit, M |-> [M EXCEPT !.env.signal_value_sum = @ + v]]
    [] f.fn = "loop_map" ->
         [value |-> IF M.env.emit_counter + 1 = f.captured THEN Exit(Unit) ELSE Continue,
          M |-> [M EXCEPT !.env.emit_counter = @ + 1]]
    [] f.fn = "continue" -> [value |-> Continue, M |-> M]
    [] f.fn = "check_joined" ->
         [value |-> Unit,
          M |-> IF M.env.emitted # TRUE \/ M.env.received # TRUE
                THEN Halt(M, "assert_eq")
                ELSE [M EXCEPT !.env.checked = TRUE]]

-----------------------------------------------------------------------------
(* Continuation and process terms.                                         *)

\* Continuation::map and Continuation::pause
MapK(c, f) == [kind |-> "Map", continuation |-> c, map |-> f]
PauseK(c)  == [kind |-> "Pause", continuation |-> c]

\* The closure Pause::call pushes onto the next instant.
PauseClosure(c, value, id) ==
  [kind |-> "pause_closure", continuation |-> c, value |-> value, id |-> id]

\* execute_process: main_continuation and the closure writing return_value.
MainContinuation(p) == [kind |-> "main_continuation", process |-> p]
ReturnClosure == [kind |-> "return_closure"]

\* The closure of the test wait_two_instants: *flag = 42.
FlagClosure == [kind |-> "flag_closure"]

\* A closure of the code driving the runtime by hand: it registers the
\* continuations of pushes, in order, each with the pool it names
\* (r.on_current_instant(c), r.on_end_of_instant(c), r.on_next_instant(c)).
ClientClosure(name, pushes) == [kind |-> "client_closure", name |-> name, pushes |-> pushes]
Push(pool, c) == [pool |-> pool, continuation |-> c]

\* History only: runs c after recording that registration id was served.
Observed(what, s, id, c) ==
  [kind |-> "observed", what |-> what, signal |-> s, id |-> id, continuation |-> c]

\* The two closures of JoinProcess::call, sharing the join point at heap[jp].
JoinClosure(side, jp) == [kind |-> "join_closure", side |-> side, jp |-> jp]
JoinPoint_new(next) == [P1_result |-> None, P2_result |-> None, next |-> Some(next)]

FlattenClosure(next) == [kind |-> "flatten_closure", next |-> next]

\* The two closures of Present::call, sharing the cell heap[cell] that owns next.
PresentIfClosure(p, cell, s, id) ==
  [kind |-> "present_if_closure", process |-> p, cell |-> cell, signal |-> s, id |-> id]
PresentElseClosure(p, cell, s, id) ==
  [kind |-> "present_else_closure", process |-> p, cell |-> cell, signal |-> s, id |-> id]

\* The closures of Present::call_mut, sharing the cells of heap[cell]: the
\* signal, next and the two processes; the inner ones receive the pair (p, v).
PresentMut_new(s, p_if, p_else, next) ==
  [signal |-> Some(s), next |-> Some(next),
   process_if |-> Some(p_if), process_else |-> Some(p_else)]
PresentIfMutClosure(cell, s, id) ==
  [kind |-> "present_if_mut_closure", cell |-> cell, signal |-> s, id |-> id]
PresentElseMutClosure(cell, s, id) ==
  [kind |-> "present_else_mut_closure", cell |-> cell, signal |-> s, id |-> id]
PresentIfMutInner(cell)   == [kind |-> "present_if_mut_inner", cell |-> cell]
PresentElseMutInner(cell) == [kind |-> "present_else_mut_inner", cell |-> cell]

\* The closures of the call_mut methods: they receive the pair (p, v) of the
\* process to run again and its value.
PauseMutClosure(next)     == [kind |-> "pause_mut_closure", next |-> next]
MapMutClosure(next, f)    == [kind |-> "map_mut_closure", next |-> next, f |-> f]
FlattenMutClosure(next)   == [kind |-> "flatten_mut_closure", next |-> next]
FlattenMutInner(next, pp) == [kind |-> "flatten_mut_inner", next |-> next, pp |-> pp]
JoinMutClosure(side, jp)  == [kind |-> "join_mut_closure", side |-> side, jp |-> jp]
\* What is left of JoinProcess::call_mut once its first process has been called.
JoinMutSecond(jp)         == [kind |-> "join_mut_second", jp |-> jp]
\* JoinPointMut::new, were it to keep each process in the cell of the other.
JoinPointMut_new_swapped(p1, p2, next) ==
  [P1_result |-> None, P2_result |-> None, next |-> Some(next),
   p1 |-> Some(p2), p2 |-> Some(p1)]

JoinPointMut_new(p1, p2, next) ==
  [P1_result |-> None, P2_result |-> None, next |-> Some(next),
   p1 |-> Some(p1), p2 |-> Some(p2)]
AwaitMutClosure(next, s)  == [kind |-> "await_mut_closure", next |-> next, signal |-> s]
AwaitValueMutClosure(next, s) ==
  [kind |-> "await_value_mut_closure", next |-> next, signal |-> s]
AwaitImmediateMutClosure(next, s) ==
  [kind |-> "await_immediate_mut_closure", next |-> next, signal |-> s]

\* The closure of WhileProcess::call
WhileClosure(next) == [kind |-> "while_closure", next |-> next]

\* Processes
Value(v)       == [kind |-> "value", value |-> v]
PauseP(p)      == [kind |-> "pause", process |-> p]
MapP(p, f)     == [kind |-> "map", process |-> p, function |-> f]
FlattenP(p)    == [kind |-> "flatten", process |-> p]
AndThen(p, f)  == FlattenP(MapP(p, f))
JoinP(p1, p2)  == [kind |-> "join", process_1 |-> p1, process_2 |-> p2]
Emit(s)        == [kind |-> "emit", signal |-> s]
EmitValue(s, e) == [kind |-> "emit_value", signal |-> s, value |-> e]
Await(s)       == [kind |-> "await", signal |-> s]
AwaitImmediate(s) == [kind |-> "await_immediate", signal |-> s]
Present(s, p_if, p_else) ==
  [kind |-> "present", signal |-> s, process_if |-> p_if, process_else |-> p_else]
\* await on a signal carrying a value, as a process that can be run again
AwaitValue(s)  == [kind |-> "await_value", signal |-> s]
WhileP(p)      == [kind |-> "while", process |-> p]

-----------------------------------------------------------------------------
(* Continuation::call and Process::call.                                   *)

\* Map::call
Map_call(k, value, M) ==
  LET r == ApplyFn(k.map, value, M)
  IN  Call(k.continuation, r.value, r.M)

\* Pause::call, were it to push onto the current instant.
Pause_call_current(k, value, M) ==
  LET c == PauseClosure(k.continuation, value, M.nid)
  IN  Log(on_current_instant(Fresh(M), c), "paused", "", "", M.nid, value)

\* Pause::call
Pause_call(k, value, M) ==
  LET c == PauseClosure(k.continuation, value, M.nid)
  IN  Log(on_next_instant(Fresh(M), c), "paused", "", "", M.nid, value)

\* The closure pushed by Pause::call
PauseClosure_call(k, M) ==
  Call(k.continuation, k.value, Log(M, "resumed", "", "", k.id, k.value))

\* main_continuation of execute_process
MainContinuation_call(k, M) == ProcessCall(k.process, ReturnClosure, M)

\* return_value.set(Some(v))
ReturnClosure_call(value, M) ==
  Log([M EXCEPT !.ret = Some(value)], "return", "", "", 0, value)

RECURSIVE ClientPushes(_, _)
\* The registrations of a closure driving the runtime by hand.
ClientPushes(pushes, M) ==
  IF pushes = << >> THEN M
  ELSE LET c  == Head(pushes).continuation
           M0 == Log(M, "push", Head(pushes).pool, M.phase, c.name, Unit)
           M1 == CASE Head(pushes).pool = "current"        -> on_current_instant(M0, c)
                   [] Head(pushes).pool = "end_of_instant" -> on_end_of_instant(M0, c)
                   [] Head(pushes).pool = "next"           -> on_next_instant(M0, c)
       IN  ClientPushes(Tail(pushes), M1)

ClientClosure_call(k, M) ==
  ClientPushes(k.pushes, Log(M, "run", "client", M.phase, k.name, Unit))

FlagClosure_call(M) ==
  Log([M EXCEPT !.env.flag = 42], "flag", "", "", 0, 42)

\* The same closure, were it to feed the value of the running instant.
LaterOnPresentClosure_call_current(k, M) ==
  Call(k.continuation, M.sig[k.signal].current_value, M)

\* The closure feeding previous_value to a later_on_present continuation.
LaterOnPresentClosure_call(k, M) ==
  LET previous_value == M.sig[k.signal].previous_value
  IN  IF ~ previous_value.some
      THEN Halt(M, "unwrap_none:previous_value")
      ELSE Call(k.continuation, previous_value.v, M)

Observed_call(k, value, M) ==
  Call(k.continuation, value, Log(M, "run", k.what, k.signal, k.id, value))

\* The closures of JoinProcess::call, were they to pair the two results in
\* the order of their arrival.
JoinClosure_call_arrival_order(k, value, M) ==
  LET M0    == Log(M, "join", "side", "", k.jp, <<k.side, value>>)
      jp    == M0.heap[k.jp]
      other == IF k.side = 1 THEN jp.P2_result ELSE jp.P1_result
      M1    == IF k.side = 1
               THEN [M0 EXCEPT !.heap[k.jp].P2_result = None]
               ELSE [M0 EXCEPT !.heap[k.jp].P1_result = None]
  IN  IF other.some
      THEN LET next_input == <<other.v, value>>
               next == M1.heap[k.jp].next
               M2 == [M1 EXCEPT !.heap[k.jp].next = None]
           IN  IF ~ next.some
               THEN Halt(M2, "unwrap_none:join_next")
               ELSE Call(next.v, next_input, Log(M2, "join", "next", "", k.jp, next_input))
      ELSE IF k.side = 1
           THEN [M1 EXCEPT !.heap[k.jp].P1_result = Some(value)]
           ELSE [M1 EXCEPT !.heap[k.jp].P2_result = Some(value)]

\* The closures of JoinProcess::call
JoinClosure_call(k, value, M) ==
  LET M0    == Log(M, "join", "side", "", k.jp, <<k.side, value>>)
      jp    == M0.heap[k.jp]
      other == IF k.side = 1 THEN jp.P2_result ELSE jp.P1_result
      \* take() of the other side's result
      M1    == IF k.side = 1
               THEN [M0 EXCEPT !.heap[k.jp].P2_result = None]
               ELSE [M0 EXCEPT !.heap[k.jp].P1_result = None]
  IN  IF other.some
      THEN LET next_input == IF k.side = 1 THEN <<value, other.v>> ELSE <<other.v, value>>
               next == M1.heap[k.jp].next
               M2 == [M1 EXCEPT !.heap[k.jp].next = None]
           IN  IF ~ next.some
               THEN Halt(M2, "unwrap_none:join_next")
               ELSE Call(next.v, next_input, Log(M2, "join", "next", "", k.jp, next_input))
      ELSE IF k.side = 1
           THEN [M1 EXCEPT !.heap[k.jp].P1_result = Some(value)]
           ELSE [M1 EXCEPT !.heap[k.jp].P2_result = Some(value)]

\* The closure of FlattenProcess::call: the value is the process to run.
FlattenClosure_call(k, value, M) == ProcessCall(value, k.next, M)

\* The on_present closure of Present::call
PresentIfClosure_call(k, M) ==
  LET next == M.heap[k.cell]
      M1 == Log([M EXCEPT !.heap[k.cell] = None], "run", "present_if", k.signal, k.id, Unit)
  IN  IF ~ next.some
      THEN Halt(M1, "unwrap_none:present_next")
      ELSE ProcessCall(k.process, next.v, Log(M1, "branch", "p_if", k.signal, k.id, Unit))

\* The later_on_absent closure of Present::call
PresentElseClosure_call(k, M) ==
  LET next == M.heap[k.cell]
      M1 == Log([M EXCEPT !.heap[k.cell] = None], "run", "present_else", k.signal, k.id, Unit)
  IN  IF ~ next.some
      THEN Halt(M1, "unwrap_none:present_next")
      ELSE ProcessCall(k.process, next.v, Log(M1, "branch", "p_else", k.signal, k.id, Unit))

\* ValueProcess::call, were it to hand its value over in the next instant.
Value_call_next_instant(p, next, M) == Call(PauseK(next), p.value, M)

\* ValueProcess::call
Value_call(p, next, M) == Call(next, p.value, M)

\* PauseProcess::call, were it to wait an instant before running its process.
PauseProcess_call_waiting(p, next, M) ==
  Call(PauseK(FlattenClosure(next)), p.process, M)

\* PauseProcess::call
PauseProcess_call(p, next, M) == ProcessCall(p.process, PauseK(next), M)

\* MapProcess::call, were the mapped value handed over one instant later.
MapProcess_call_paused(p, next, M) ==
  ProcessCall(p.process, MapK(PauseK(next), p.function), M)

\* MapProcess::call
MapProcess_call(p, next, M) == ProcessCall(p.process, MapK(next, p.function), M)

\* FlattenProcess::call
FlattenProcess_call(p, next, M) == ProcessCall(p.process, FlattenClosure(next), M)

\* JoinProcess::call, were it to hand the pair over one instant later.
JoinProcess_call_next_paused(p, next, M) ==
  LET jp == Len(M.heap) + 1
      M0 == [M EXCEPT !.heap = Append(@, JoinPoint_new(PauseK(next)))]
      M1 == ProcessCall(p.process_1, JoinClosure(1, jp), M0)
  IN  ProcessCall(p.process_2, JoinClosure(2, jp), M1)

\* JoinProcess::call
JoinProcess_call(p, next, M) ==
  LET jp == Len(M.heap) + 1
      M0 == [M EXCEPT !.heap = Append(@, JoinPoint_new(next))]
      M1 == ProcessCall(p.process_1, JoinClosure(1, jp), M0)
  IN  ProcessCall(p.process_2, JoinClosure(2, jp), M1)

\* Emit::call
Emit_call(p, next, M) == Call(next, Unit, emit_logged(M, p.signal, Unit))

\* emit_value(s, e): the same, calling s.emit(scheduler, e)
EmitValue_call(p, next, M) == Call(next, Unit, emit_logged(M, p.signal, p.value))

\* Await::call
Await_call(p, next, M) ==
  LET M1 == Log(Fresh(M), "reg", "await", p.signal, M.nid, Unit)
  IN  later_on_present(M1, p.signal, Observed("await", p.signal, M.nid, next))

\* AwaitImmediate::call
AwaitImmediate_call(p, next, M) ==
  LET M1 == Log(Fresh(M), "reg", "await_immediate", p.signal, M.nid, Unit)
  IN  on_present(M1, p.signal, Observed("await_immediate", p.signal, M.nid, next))

\* Present::call
Present_call(p, next, M) ==
  LET cell == Len(M.heap) + 1
      s    == p.signal
      M0 == Log(Fresh([M EXCEPT !.heap = Append(@, Some(next))]),
                "reg", "present", s, M.nid, Unit)
      M1 == on_present(M0, s, PresentIfClosure(p.process_if, cell, s, M.nid))
  IN  later_on_absent_logged(M1, s, PresentElseClosure(p.process_else, cell, s, M.nid))

\* ValueProcess::call_mut
Value_call_mut(p, next, M) == Call(next, <<p, p.value>>, M)

\* PauseProcess::call_mut and its closure
PauseProcess_call_mut(p, next, M) == ProcessCallMut(p.process, PauseMutClosure(next), M)

\* The closure of PauseProcess::call_mut, were it to hand back the process
\* without its pause.
PauseMutClosure_call_without_pause(k, value, M) ==
  Call(PauseK(k.next), <<value[1], value[2]>>, M)

PauseMutClosure_call(k, value, M) ==
  Call(PauseK(k.next), <<PauseP(value[1]), value[2]>>, M)

\* MapProcess::call_mut and its closure
MapProcess_call_mut(p, next, M) ==
  ProcessCallMut(p.process, MapMutClosure(next, p.function), M)

MapMutClosure_call(k, value, M) ==
  LET r == ApplyFn(k.f, value[2], M)
  IN  Call(k.next, <<MapP(value[1], k.f), r.value>>, r.M)

\* FlattenProcess::call_mut and its two closures
FlattenProcess_call_mut(p, next, M) ==
  ProcessCallMut(p.process, FlattenMutClosure(next), M)

FlattenMutClosure_call(k, value, M) ==
  ProcessCallMut(value[2], FlattenMutInner(k.next, value[1]), M)

FlattenMutInner_call(k, value, M) == Call(k.next, <<FlattenP(k.pp), value[2]>>, M)

\* The closures of JoinProcess::call_mut, were they to leave the cell of their
\* process empty.
JoinMutClosure_call_no_reinsert(k, value, M) ==
  LET M0    == Log(M, "join", "side", "", k.jp, <<k.side, value[2]>>)
      M1    == M0
      jp    == M1.heap[k.jp]
      other == IF k.side = 1 THEN jp.P2_result ELSE jp.P1_result
      M2    == IF k.side = 1
               THEN [M1 EXCEPT !.heap[k.jp].P2_result = None]
               ELSE [M1 EXCEPT !.heap[k.jp].P1_result = None]
  IN  IF other.some
      THEN LET M3 == [M2 EXCEPT !.heap[k.jp].p1 = None,
                                !.heap[k.jp].p2 = None,
                                !.heap[k.jp].next = None]
               next_input == IF k.side = 1 THEN <<value[2], other.v>>
                                           ELSE <<other.v, value[2]>>
           IN  IF ~ jp.p1.some THEN Halt([M2 EXCEPT !.heap[k.jp].p1 = None], "unwrap_none:join_p1")
               ELSE IF ~ jp.p2.some
                    THEN Halt([M2 EXCEPT !.heap[k.jp].p1 = None, !.heap[k.jp].p2 = None],
                              "unwrap_none:join_p2")
               ELSE IF ~ jp.next.some THEN Halt(M3, "unwrap_none:join_next")
               ELSE Call(jp.next.v, <<JoinP(jp.p1.v, jp.p2.v), next_input>>,
                         Log(Log(M3, "join", "next", "", k.jp, next_input),
                             "join", "rebuilt", "", k.jp, JoinP(jp.p1.v, jp.p2.v)))
      ELSE IF k.side = 1
           THEN [M2 EXCEPT !.heap[k.jp].P1_result = Some(value[2])]
           ELSE [M2 EXCEPT !.heap[k.jp].P2_result = Some(value[2])]

\* The closures of JoinProcess::call_mut
JoinMutClosure_call(k, value, M) ==
  LET M0    == Log(M, "join", "side", "", k.jp, <<k.side, value[2]>>)
      \* join_point.p1.set(Some(p1)), or p2
      M1    == IF k.side = 1
               THEN [M0 EXCEPT !.heap[k.jp].p1 = Some(value[1])]
               ELSE [M0 EXCEPT !.heap[k.jp].p2 = Some(value[1])]
      jp    == M1.heap[k.jp]
      other == IF k.side = 1 THEN jp.P2_result ELSE jp.P1_result
      M2    == IF k.side = 1
               THEN [M1 EXCEPT !.heap[k.jp].P2_result = None]
               ELSE [M1 EXCEPT !.heap[k.jp].P1_result = None]
  IN  IF other.some
      THEN LET M3 == [M2 EXCEPT !.heap[k.jp].p1 = None,
                                !.heap[k.jp].p2 = None,
                                !.heap[k.jp].next = None]
               next_input == IF k.side = 1 THEN <<value[2], other.v>>
                                           ELSE <<other.v, value[2]>>
           IN  IF ~ jp.p1.some THEN Halt([M2 EXCEPT !.heap[k.jp].p1 = None], "unwrap_none:join_p1")
               ELSE IF ~ jp.p2.some
                    THEN Halt([M2 EXCEPT !.heap[k.jp].p1 = None, !.heap[k.jp].p2 = None],
                              "unwrap_none:join_p2")
               ELSE IF ~ jp.next.some THEN Halt(M3, "unwrap_none:join_next")
               ELSE Call(jp.next.v, <<JoinP(jp.p1.v, jp.p2.v), next_input>>,
                         Log(Log(M3, "join", "next", "", k.jp, next_input),
                             "join", "rebuilt", "", k.jp, JoinP(jp.p1.v, jp.p2.v)))
      ELSE IF k.side = 1
           THEN [M2 EXCEPT !.heap[k.jp].P1_result = Some(value[2])]
           ELSE [M2 EXCEPT !.heap[k.jp].P2_result = Some(value[2])]

\* JoinProcess::call_mut, second statement, run once the call_mut of the
\* first process has come back: join_point_3.p2.take().unwrap().call_mut(..)
JoinProcess_call_mut_second(k, M) ==
  LET p2 == M.heap[k.jp].p2
  IN  IF ~ p2.some THEN Halt(M, "unwrap_none:join_p2")
      ELSE ProcessCallMut(p2.v, JoinMutClosure(2, k.jp), [M EXCEPT !.heap[k.jp].p2 = None])

\* JoinProcess::call_mut
JoinProcess_call_mut(p, next, M) ==
  LET jp == Len(M.heap) + 1
      M0 == Log([M EXCEPT !.heap = Append(@, JoinPointMut_new(p.process_1, p.process_2, next))],
                "join", "call_mut", "", jp, p)
      \* join_point_3.p1.take().unwrap().call_mut(..)
      M1 == ProcessCallMut(M0.heap[jp].p1.v, JoinMutClosure(1, jp),
                           [M0 EXCEPT !.heap[jp].p1 = None])
  IN  Call(JoinMutSecond(jp), Unit, M1)

\* Emit::call_mut
Emit_call_mut(p, next, M) ==
  Call(next, <<Emit(p.signal), Unit>>, emit_logged(M, p.signal, Unit))

\* emit_value(s, e) run again: the same, calling s.emit(scheduler, e)
EmitValue_call_mut(p, next, M) ==
  Call(next, <<EmitValue(p.signal, p.value), Unit>>, emit_logged(M, p.signal, p.value))

\* Await::call_mut and its closure
Await_call_mut(p, next, M) ==
  LET M1 == Log(Fresh(M), "reg", "await", p.signal, M.nid, Unit)
  IN  later_on_present(M1, p.signal,
        Observed("await", p.signal, M.nid, AwaitMutClosure(next, p.signal)))

AwaitMutClosure_call(k, M) == Call(k.next, <<Await(k.signal), Unit>>, M)

\* await on a signal carrying a value, run again: the continuation receives
\* the process and the value gathered in the instant of the emission.
AwaitValue_call_mut(p, next, M) ==
  LET M1 == Log(Fresh(M), "reg", "await", p.signal, M.nid, Unit)
  IN  later_on_present(M1, p.signal,
        Observed("await", p.signal, M.nid, AwaitValueMutClosure(next, p.signal)))

AwaitValueMutClosure_call(k, value, M) ==
  Call(k.next, <<AwaitValue(k.signal), value>>, M)

\* AwaitImmediate::call_mut and its closure
AwaitImmediate_call_mut(p, next, M) ==
  LET M1 == Log(Fresh(M), "reg", "await_immediate", p.signal, M.nid, Unit)
  IN  on_present(M1, p.signal,
        Observed("await_immediate", p.signal, M.nid,
                 AwaitImmediateMutClosure(next, p.signal)))

AwaitImmediateMutClosure_call(k, M) ==
  Call(k.next, <<AwaitImmediate(k.signal), Unit>>, M)

\* Present::call_mut
Present_call_mut(p, next, M) ==
  LET cell == Len(M.heap) + 1
      s    == p.signal
      M0 == Log(Fresh([M EXCEPT !.heap = Append(@, PresentMut_new(s, p.process_if,
                                                                  p.process_else, next))]),
                "reg", "present", s, M.nid, Unit)
      M1 == on_present(M0, s, PresentIfMutClosure(cell, s, M.nid))
  IN  later_on_absent_logged(M1, s, PresentElseMutClosure(cell, s, M.nid))

\* The on_present closure of Present::call_mut:
\* process_if_1.take().unwrap().call_mut(r, ..)
PresentIfMutClosure_call(k, M) ==
  LET process_if == M.heap[k.cell].process_if
      M1 == Log([M EXCEPT !.heap[k.cell].process_if = None],
                "run", "present_if", k.signal, k.id, Unit)
  IN  IF ~ process_if.some
      THEN Halt(M1, "unwrap_none:present_process_if")
      ELSE ProcessCallMut(process_if.v, PresentIfMutInner(k.cell),
                          Log(M1, "branch", "p_if", k.signal, k.id, Unit))

\* Its inner closure: the present is built again from the signal, p and the
\* other process, and handed to next with the value.
PresentIfMutInner_call(k, value, M) ==
  LET c  == M.heap[k.cell]
      M1 == [M EXCEPT !.heap[k.cell].signal = None]
      M2 == [M1 EXCEPT !.heap[k.cell].process_else = None]
      M3 == [M2 EXCEPT !.heap[k.cell].next = None]
  IN  IF ~ c.signal.some THEN Halt(M1, "unwrap_none:present_signal")
      ELSE IF ~ c.process_else.some THEN Halt(M2, "unwrap_none:present_process_else")
      ELSE IF ~ c.next.some THEN Halt(M3, "unwrap_none:present_next")
      ELSE Call(c.next.v, <<Present(c.signal.v, value[1], c.process_else.v), value[2]>>, M3)

\* The later_on_absent closure of Present::call_mut:
\* process_else_2.take().unwrap().call_mut(r, ..)
PresentElseMutClosure_call(k, M) ==
  LET process_else == M.heap[k.cell].process_else
      M1 == Log([M EXCEPT !.heap[k.cell].process_else = None],
                "run", "present_else", k.signal, k.id, Unit)
  IN  IF ~ process_else.some
      THEN Halt(M1, "unwrap_none:present_process_else")
      ELSE ProcessCallMut(process_else.v, PresentElseMutInner(k.cell),
                          Log(M1, "branch", "p_else", k.signal, k.id, Unit))

PresentElseMutInner_call(k, value, M) ==
  LET c  == M.heap[k.cell]
      M1 == [M EXCEPT !.heap[k.cell].signal = None]
      M2 == [M1 EXCEPT !.heap[k.cell].process_if = None]
      M3 == [M2 EXCEPT !.heap[k.cell].next = None]
  IN  IF ~ c.signal.some THEN Halt(M1, "unwrap_none:present_signal")
      ELSE IF ~ c.process_if.some THEN Halt(M2, "unwrap_none:present_process_if")
      ELSE IF ~ c.next.some THEN Halt(M3, "unwrap_none:present_next")
      ELSE Call(c.next.v, <<Present(c.signal.v, c.process_if.v, value[1]), value[2]>>, M3)

\* WhileProcess::call, were every iteration handed over one instant later.
WhileProcess_call_paused(p, next, M) ==
  ProcessCallMut(p.process, PauseK(WhileClosure(next)), M)

\* WhileProcess::call and its closure
WhileProcess_call(p, next, M) == ProcessCallMut(p.process, WhileClosure(next), M)

WhileClosure_call(k, value, M) ==
  LET status == value[2]
      M1 == Log(M, "loop", status.status, "", 0, status.output)
  IN  IF status.status = "Continue"
      THEN ProcessCall(WhileP(value[1]), k.next, M1)
      ELSE Call(k.next, status.output, M1)

\* Continuation::call, by the kind of the continuation
Continuation_call(k, value, M) ==
       CASE k.kind = "Map"                      -> Map_call(k, value, M)
         [] k.kind = "Pause"                    -> Pause_call(k, value, M)
         [] k.kind = "pause_closure"            -> PauseClosure_call(k, M)
         [] k.kind = "main_continuation"        -> MainContinuation_call(k, M)
         [] k.kind = "return_closure"           -> ReturnClosure_call(value, M)
         [] k.kind = "flag_closure"             -> FlagClosure_call(M)
         [] k.kind = "client_closure"           -> ClientClosure_call(k, M)
         [] k.kind = "observed"                 -> Observed_call(k, value, M)
         [] k.kind = "join_closure"             -> JoinClosure_call(k, value, M)
         [] k.kind = "flatten_closure"          -> FlattenClosure_call(k, value, M)
         [] k.kind = "present_if_closure"       -> PresentIfClosure_call(k, M)
         [] k.kind = "present_else_closure"     -> PresentElseClosure_call(k, M)
         [] k.kind = "update_on_end_of_instant" -> update_on_end_of_instant(M, k.signal)
         [] k.kind = "later_on_present_closure" -> LaterOnPresentClosure_call(k, M)
         [] k.kind = "later_on_absent_closure"  ->
              add_later_on_absent_continuations_to_runtime(M, k.signal)
         [] k.kind = "pause_mut_closure"        -> PauseMutClosure_call(k, value, M)
         [] k.kind = "map_mut_closure"          -> MapMutClosure_call(k, value, M)
         [] k.kind = "flatten_mut_closure"      -> FlattenMutClosure_call(k, value, M)
         [] k.kind = "flatten_mut_inner"        -> FlattenMutInner_call(k, value, M)
         [] k.kind = "join_mut_closure"         -> JoinMutClosure_call(k, value, M)
         [] k.kind = "await_mut_closure"        -> AwaitMutClosure_call(k, M)
         [] k.kind = "await_value_mut_closure"  -> AwaitValueMutClosure_call(k, value, M)
         [] k.kind = "await_immediate_mut_closure" -> AwaitImmediateMutClosure_call(k, M)
         [] k.kind = "while_closure"            -> WhileClosure_call(k, value, M)
         [] k.kind = "present_if_mut_closure"   -> PresentIfMutClosure_call(k, M)
         [] k.kind = "present_if_mut_inner"     -> PresentIfMutInner_call(k, value, M)
         [] k.kind = "present_else_mut_closure" -> PresentElseMutClosure_call(k, M)
         [] k.kind = "present_else_mut_inner"   -> PresentElseMutInner_call(k, value, M)
         [] k.kind = "join_mut_second"          -> JoinProcess_call_mut_second(k, M)

\* Process::call, by the kind of the process
Process_call(p, next, M) ==
       CASE p.kind = "value"           -> Value_call(p, next, M)
         [] p.kind = "pause"           -> PauseProcess_call(p, next, M)
         [] p.kind = "map"             -> MapProcess_call(p, next, M)
         [] p.kind = "flatten"         -> FlattenProcess_call(p, next, M)
         [] p.kind = "join"            -> JoinProcess_call(p, next, M)
         [] p.kind = "emit"            -> Emit_call(p, next, M)
         [] p.kind = "emit_value"      -> EmitValue_call(p, next, M)
         [] p.kind = "await"           -> Await_call(p, next, M)
         [] p.kind = "await_immediate" -> AwaitImmediate_call(p, next, M)
         [] p.kind = "present"         -> Present_call(p, next, M)
         [] p.kind = "await_value"     -> Await_call(p, next, M)
         [] p.kind = "while"           -> WhileProcess_call(p, next, M)

\* ProcessMut::call_mut, by the kind of the process
ProcessMut_call_mut(p, next, M) ==
       CASE p.kind = "value"           -> Value_call_mut(p, next, M)
         [] p.kind = "pause"           -> PauseProcess_call_mut(p, next, M)
         [] p.kind = "map"             -> MapProcess_call_mut(p, next, M)
         [] p.kind = "flatten"         -> FlattenProcess_call_mut(p, next, M)
         [] p.kind = "join"            -> JoinProcess_call_mut(p, next, M)
         [] p.kind = "emit"            -> Emit_call_mut(p, next, M)
         [] p.kind = "emit_value"      -> EmitValue_call_mut(p, next, M)
         [] p.kind = "await"           -> Await_call_mut(p, next, M)
         [] p.kind = "await_value"     -> AwaitValue_call_mut(p, next, M)
         [] p.kind = "await_immediate" -> AwaitImmediate_call_mut(p, next, M)
         [] p.kind = "present"         -> Present_call_mut(p, next, M)

\* Runs the first waiting call; the calls it makes go before the others.
Step(M) ==
  LET f == Head(M.todo)
      M0 == [M EXCEPT !.todo = << >>]
      R == CASE f.op = "call"             -> Continuation_call(f.target, f.arg, M0)
             [] f.op = "process_call"     -> Process_call(f.target, f.arg, M0)
             [] f.op = "process_call_mut" -> ProcessMut_call_mut(f.target, f.arg, M0)
  IN  [R EXCEPT !.todo = @ \o Tail(M.todo)]

\* Nothing is left to run, or the program has halted.
Finished(M) == M.todo = << >> \/ M.panic # ""

RECURSIVE RunFor(_, _)
\* Up to 2^k steps.
RunFor(k, M) ==
  IF Finished(M) THEN M
  ELSE IF k = 0 THEN Step(M)
  ELSE RunFor(k - 1, RunFor(k - 1, M))

\* Runs a task to completion, with every call it makes.
Run(M) == RunFor(RunDepth, M)

-----------------------------------------------------------------------------
(* The programs and seeds the runtime is started with.                     *)

RECURSIVE PauseN(_, _)
\* p.pause()...pause(), n times
PauseN(n, p) == IF n = 0 THEN p ELSE PauseP(PauseN(n - 1, p))

RECURSIVE PauseKN(_, _)
\* c.pause()...pause(), n times
PauseKN(n, c) == IF n = 0 THEN c ELSE PauseK(PauseKN(n - 1, c))

\* q started d instants later: value(()).pause()...pause().and_then(|_| q)
Delay(d, q) == IF d = 0 THEN q ELSE AndThen(PauseN(d, Value(Unit)), Then(q))

Delays == 0..MaxPauses

\* Chains of value, map and pause (tests map_to_multiply, map_and_pause_to_multiply).
ChainPrograms ==
  {PauseN(n, Value(21)) : n \in Delays}
  \cup {Value(v) : v \in {Unit, 10, 42}}
  \cup {MapP(PauseN(n, Value(21)), Fn("double")) : n \in Delays}
  \cup {PauseN(n, MapP(PauseN(m, Value(21)), Fn("double"))) : n \in Delays, m \in Delays}
  \cup {MapP(PauseN(n, MapP(PauseN(m, Value(21)), Fn("double"))), Fn("double"))
          : n \in Delays, m \in Delays}

\* What one branch of a join does with a pure signal.
PureAgents ==
  {Delay(d, a) : d \in Delays,
                 a \in {Emit("pure"), AwaitImmediate("pure"),
                        Present("pure", Value("p_if"), Value("p_else"))}}
  \cup {Value(Unit)}

\* What one branch of a join does with a value signal gathering into a vector.
VecAgents ==
  {Delay(d, a) : d \in Delays,
                 a \in {EmitValue("vec", 1), EmitValue("vec", 2), Await("vec")}}

Join3(a, b, c) == JoinP(a, JoinP(b, c))

SignalPrograms ==
  {Join3(a, b, c) : a \in PureAgents, b \in PureAgents, c \in PureAgents}
  \cup {Join3(a, b, c) : a \in VecAgents, b \in VecAgents, c \in VecAgents}

\* Two awaits around an emission, and a second emission in a later instant.
TwoAwaitPrograms ==
  {JoinP(Await("vec"), Join3(EmitValue("vec", e1), Delay(d, EmitValue("vec", e2)), Await("vec")))
     : e1 \in {1, 2}, e2 \in {1, 2}, d \in Delays}

\* tests of pure_signal.rs: general_emit_and_await_immediate, both orders;
\* general_present_or_absent_signal, with and without the emission.
process_emit  == MapP(Emit("pure"), Fn("emitted"))
process_await == MapP(AwaitImmediate("pure"), Fn("received"))

TestPrograms ==
  { MapP(JoinP(process_emit, process_await), Fn("check_joined")),
    MapP(JoinP(process_await, process_emit), Fn("check_joined")),
    JoinP(Present("pure", Value("p_if"), Value("p_else")), Emit("pure")),
    Present("pure", Value("p_if"), Value("p_else")),
    MapP(JoinP(Value(10), PauseN(3, Value(32))), Fn("sum")) }

\* join of two pure processes completing after m+1 and n+1 instants, in both
\* positions, alone and under map (test join_sum_with_delay).
JoinPrograms ==
  {JoinP(PauseN(m, Value(10)), PauseN(n, Value(32))) : m \in Delays, n \in Delays}
  \cup {JoinP(PauseN(n, Value(32)), PauseN(m, Value(10))) : m \in Delays, n \in Delays}
  \cup {MapP(JoinP(PauseN(m, Value(10)), PauseN(n, Value(32))), Fn("sum"))
          : m \in Delays, n \in Delays}

\* Number of iterations of the test count_using_while.
CountTo == 42

\* The test count_using_while, counting to n.
count_using_while(n) ==
  WhileP(MapP(MapP(Value(Unit), Fn("sum_counter")), test_loop_end(n)))

\* The same loop with a pause in its body, before or after the counting.
count_with_pause(n) ==
  WhileP(MapP(MapP(PauseP(Value(Unit)), Fn("sum_counter")), test_loop_end(n)))
count_then_pause(n) ==
  WhileP(PauseP(MapP(MapP(Value(Unit), Fn("sum_counter")), test_loop_end(n))))

Iterations == 1..MaxIterations

\* A loop over a join of two processes that hand their values over after a
\* and b instants, counting its iterations and exiting at the n-th.
join_loop(a, b, n) ==
  WhileP(MapP(MapP(JoinP(PauseN(a, Value(10)), PauseN(b, Value(32))), Fn("sum_counter")),
              test_loop_end(n)))

JoinLoopPrograms == {join_loop(a, b, n) : a \in Delays, b \in Delays, n \in Iterations}

CountPrograms ==
  {count_using_while(n) : n \in Iterations \cup {CountTo}}
  \cup {count_with_pause(n) : n \in Iterations}
  \cup {count_then_pause(n) : n \in Iterations}

\* Number of iterations and value emitted in the test count_using_signal_values.
SignalIterations == 14
SignalValue == 3

\* The test count_using_signal_values on the signal "last" (default 0, gather
\* function *v = e), exiting at the n-th iteration and emitting c.
count_using_signal_values(n, c) ==
  WhileP(MapP(JoinP(MapP(AwaitValue("last"), Fn("update_signal_value")),
                    PauseP(EmitValue("last", c))),
              loop_map(n)))

SignalLoopPrograms ==
  {count_using_signal_values(n, c) : n \in Iterations, c \in {1, SignalValue}}
  \cup {count_using_signal_values(SignalIterations, SignalValue)}

\* A process waiting for a signal that nothing emits.
WaitPrograms == {Await("pure"), AwaitImmediate("pure")}

\* emit(S).pause(), started d instants after the first.
PausedEmit(d) == Delay(d, PauseP(Emit("pure")))

PausedEmitPrograms == {PausedEmit(d) : d \in Delays}

\* await_immediate(S).pause() beside an emission of S made d instants later.
PausedAwait(d) == JoinP(PauseP(AwaitImmediate("pure")), Delay(d, Emit("pure")))

PausedAwaitPrograms == {PausedAwait(d) : d \in Delays}

Programs ==
  ChainPrograms \cup SignalPrograms \cup TwoAwaitPrograms \cup TestPrograms
  \cup JoinPrograms \cup CountPrograms \cup SignalLoopPrograms \cup WaitPrograms
  \cup PausedEmitPrograms \cup PausedAwaitPrograms \cup JoinLoopPrograms

\* Continuations handed to Runtime::on_current_instant directly (test wait_two_instants).
PauseSeeds == {PauseKN(n, FlagClosure) : n \in Delays}

Pools == {"current", "end_of_instant", "next"}

\* Closures registering other closures: "a" registers "b" and "d", in either
\* order, and "b" registers "c", each with any pool.
ClientSeeds ==
  {ClientClosure("a", <<Push(p1, ClientClosure("b", <<Push(p2, ClientClosure("c", << >>))>>)),
                        Push(p3, ClientClosure("d", << >>))>>)
     : p1 \in Pools, p2 \in Pools, p3 \in Pools}
  \cup
  {ClientClosure("a", <<Push(p3, ClientClosure("d", << >>)),
                        Push(p1, ClientClosure("b", <<Push(p2, ClientClosure("c", << >>))>>))>>)
     : p1 \in Pools, p2 \in Pools, p3 \in Pools}

Seeds == PauseSeeds \cup ClientSeeds

-----------------------------------------------------------------------------
(* The state machine.                                                      *)

Machine ==
  [ cur |-> current_instant_tasks, eoi |-> end_of_instant_tasks,
    nxt |-> next_instant_tasks, sig |-> signal_runtime, heap |-> heap,
    ret |-> return_value, env |-> env, panic |-> panic,
    instant |-> instant, hist |-> hist, nid |-> nid, todo |-> << >>,
    phase |-> "current" ]

Commit(M) ==
  /\ current_instant_tasks' = M.cur
  /\ end_of_instant_tasks'  = M.eoi
  /\ next_instant_tasks'    = M.nxt
  /\ signal_runtime'        = M.sig
  /\ heap'                  = M.heap
  /\ return_value'          = M.ret
  /\ env'                   = M.env
  /\ panic'                 = M.panic
  /\ hist'                  = M.hist
  /\ nid'                   = M.nid

\* The cells captured by the closures of the tests, as the tests create them.
InitialEnv ==
  [emitted |-> FALSE, received |-> FALSE, checked |-> FALSE, flag |-> 0,
   counter |-> 0, emit_counter |-> 0, signal_value_sum |-> 0]

\* Runtime::new, SignalRuntime::new, and the seed pushed by on_current_instant.
InitWith(d, seed, task) ==
  /\ driver = d
  /\ program = seed
  /\ current_instant_tasks = <<task>>
  /\ end_of_instant_tasks = << >>
  /\ next_instant_tasks = << >>
  /\ signal_runtime = [s \in Signals |-> SignalRuntime_new(s)]
  /\ heap = << >>
  /\ return_value = None
  /\ env = InitialEnv
  /\ panic = ""
  /\ pc = "current"
  /\ instant = 1
  /\ hist = <<Event("instant", "called", "", 0, 1, <<1, 0, 0>>)>>
  /\ nid = 1
  /\ gathered = << >>

Init ==
  \/ \E p \in Programs : InitWith("execute_process", p, MainContinuation(p))
  \/ \E c \in Seeds : InitWith("runtime", c, c)
  \/ \E c \in Seeds : InitWith("execute", c, c)

\* History: a task is taken from a pool, leaving the pools as M has them; the
\* event names the kind of the task and the signal it belongs to, if any.
StartTask(M, pool, task) ==
  Log([M EXCEPT !.phase = pool], "task", pool,
      IF "signal" \in DOMAIN task THEN task.signal ELSE "", task.kind,
      <<Len(M.cur), Len(M.eoi), Len(M.nxt)>>)

\* History: instant() returns work_remains, having found n continuations in
\* the next pool and leaving after; when execute goes on, instant() is called
\* again.
InstantReturns(work_remains, n, after, again) ==
  LET returned == Event("instant", "returned", "", 0, instant,
                        [work_remains |-> work_remains, next |-> n, current |-> Len(after)])
      called   == Event("instant", "called", "", 0, instant + 1, <<n, 0, 0>>)
  IN  hist' = IF again THEN hist \o <<returned, called>> ELSE Append(hist, returned)

\* History: the value of each signal when the current phase of the instant ends.
Snapshot ==
  gathered' = IF pc = "current"
              THEN Append(gathered, [s \in Signals |-> signal_runtime[s].current_value])
              ELSE gathered

\* Runtime::current_instant: pops one task of the current instant and runs it.
current_instant ==
  /\ pc = "current"
  /\ current_instant_tasks # << >>
  /\ LET n    == Len(current_instant_tasks)
         task == current_instant_tasks[n]
         M    == Run(Call(task, Unit, StartTask([Machine EXCEPT !.cur = SubSeq(@, 1, n - 1)],
                                                "current", task)))
     IN  /\ Commit(M)
         /\ pc' = IF M.panic # "" THEN "panicked" ELSE "current"
  /\ UNCHANGED <<driver, program, instant, gathered>>

\* Runtime::end_of_instant: once the current tasks are exhausted, pops one
\* end-of-instant task and runs it.
end_of_instant ==
  /\ \/ pc = "current" /\ current_instant_tasks = << >>
     \/ pc = "end_of_instant"
  /\ end_of_instant_tasks # << >>
  /\ LET n    == Len(end_of_instant_tasks)
         task == end_of_instant_tasks[n]
         M    == Run(Call(task, Unit, StartTask([Machine EXCEPT !.eoi = SubSeq(@, 1, n - 1)],
                                                "end_of_instant", task)))
     IN  /\ Commit(M)
         /\ pc' = IF M.panic # "" THEN "panicked" ELSE "end_of_instant"
  /\ Snapshot
  /\ UNCHANGED <<driver, program, instant>>

\* Runtime::execute, were it to run a single instant.
execute_stops(work_remains) == FALSE

\* Runtime::execute: while self.instant() {}
execute_continues(work_remains) == work_remains

\* Runtime::move_to_next_instant, were it to keep the current pool.
move_to_next_instant_keeping_current ==
  /\ \/ pc = "current" /\ current_instant_tasks = << >>
     \/ pc = "end_of_instant"
  /\ end_of_instant_tasks = << >>
  /\ LET work_remains == (current_instant_tasks \o next_instant_tasks) # << >>
     IN  /\ current_instant_tasks' = current_instant_tasks \o next_instant_tasks
         /\ end_of_instant_tasks' = << >>
         /\ next_instant_tasks' = << >>
         /\ IF driver = "runtime"
            THEN pc' = "idle" /\ instant' = instant
            ELSE IF execute_continues(work_remains)
                 THEN pc' = "current" /\ instant' = instant + 1
                 ELSE pc' = "returned" /\ instant' = instant
         /\ InstantReturns(work_remains, Len(next_instant_tasks), current_instant_tasks',
                           driver # "runtime" /\ execute_continues(work_remains))
  /\ Snapshot
  /\ UNCHANGED <<signal_runtime, heap, return_value, env, panic, driver, program, nid>>

\* Runtime::move_to_next_instant, then the loop of Runtime::execute (or the
\* return of instant() to the caller driving the runtime by hand).
move_to_next_instant ==
  /\ \/ pc = "current" /\ current_instant_tasks = << >>
     \/ pc = "end_of_instant"
  /\ end_of_instant_tasks = << >>
  \* clear() of the two pools, append of the next pool, !is_empty()
  /\ LET work_remains == (<< >> \o next_instant_tasks) # << >>
     IN  /\ current_instant_tasks' = << >> \o next_instant_tasks
         /\ end_of_instant_tasks' = << >>
         /\ next_instant_tasks' = << >>
         /\ IF driver = "runtime"
            THEN pc' = "idle" /\ instant' = instant
            ELSE IF execute_continues(work_remains)
                 THEN pc' = "current" /\ instant' = instant + 1
                 ELSE pc' = "returned" /\ instant' = instant
         /\ InstantReturns(work_remains, Len(next_instant_tasks), current_instant_tasks',
                           driver # "runtime" /\ execute_continues(work_remains))
  /\ Snapshot
  /\ UNCHANGED <<signal_runtime, heap, return_value, env, panic, driver, program, nid>>

\* Runtime::instant called again by the code driving the runtime by hand.
instant_again ==
  /\ pc = "idle"
  /\ instant < MaxInstantCalls
  /\ pc' = "current"
  /\ instant' = instant + 1
  /\ hist' = Append(hist, Event("instant", "called", "", 0, instant + 1,
                                <<Len(current_instant_tasks), Len(end_of_instant_tasks),
                                  Len(next_instant_tasks)>>))
  /\ UNCHANGED <<current_instant_tasks, end_of_instant_tasks, next_instant_tasks,
                 signal_runtime, heap, return_value, env, panic, driver, program,
                 nid, gathered>>

\* Runtime::execute returns to the code that called it directly.
execute_return ==
  /\ pc = "returned"
  /\ driver = "execute"
  /\ pc' = "done"
  /\ UNCHANGED <<current_instant_tasks, end_of_instant_tasks, next_instant_tasks,
                 signal_runtime, heap, return_value, env, panic, driver, program,
                 instant, hist, nid, gathered>>

\* execute_process: return_value_clone.take().unwrap()
execute_process_return ==
  /\ pc = "returned"
  /\ driver = "execute_process"
  /\ IF return_value.some
     THEN pc' = "done" /\ panic' = panic
     ELSE pc' = "panicked" /\ panic' = "unwrap_none:return_value"
  /\ UNCHANGED <<current_instant_tasks, end_of_instant_tasks, next_instant_tasks,
                 signal_runtime, heap, return_value, env, driver, program,
                 instant, hist, nid, gathered>>

Next ==
  \/ current_instant
  \/ end_of_instant
  \/ move_to_next_instant
  \/ instant_again
  \/ execute_return
  \/ execute_process_return

Spec == Init /\ [][Next]_vars

-----------------------------------------------------------------------------
(* The same runtime with pools that hand out their continuations in any    *)
(* order, run on the loops over a signal.                                  *)

RemoveAt(q, i) == SubSeq(q, 1, i - 1) \o SubSeq(q, i + 1, Len(q))

InitAnyOrder ==
  \E p \in SignalLoopPrograms : InitWith("execute_process", p, MainContinuation(p))

current_instant_any_order ==
  /\ pc = "current"
  /\ current_instant_tasks # << >>
  /\ \E i \in 1..Len(current_instant_tasks) :
       LET task == current_instant_tasks[i]
           M    == Run(Call(task, Unit, StartTask([Machine EXCEPT !.cur = RemoveAt(@, i)],
                                                  "current", task)))
       IN  /\ Commit(M)
           /\ pc' = IF M.panic # "" THEN "panicked" ELSE "current"
  /\ UNCHANGED <<driver, program, instant, gathered>>

end_of_instant_any_order ==
  /\ \/ pc = "current" /\ current_instant_tasks = << >>
     \/ pc = "end_of_instant"
  /\ end_of_instant_tasks # << >>
  /\ \E i \in 1..Len(end_of_instant_tasks) :
       LET task == end_of_instant_tasks[i]
           M    == Run(Call(task, Unit, StartTask([Machine EXCEPT !.eoi = RemoveAt(@, i)],
                                                  "end_of_instant", task)))
       IN  /\ Commit(M)
           /\ pc' = IF M.panic # "" THEN "panicked" ELSE "end_of_instant"
  /\ Snapshot
  /\ UNCHANGED <<driver, program, instant>>

NextAnyOrder ==
  \/ current_instant_any_order
  \/ end_of_instant_any_order
  \/ move_to_next_instant
  \/ execute_process_return

SpecAnyOrder == InitAnyOrder /\ [][NextAnyOrder]_vars

-----------------------------------------------------------------------------
(* execute_process on processes that test a signal in several instants.    *)

\* present(S, p_if, p_else).map(|_| Continue).while_loop()
present_loop_forever ==
  WhileP(MapP(Present("pure", Value(Unit), Value(Unit)), Fn("continue")))

\* The same loop, counting its iterations and exiting at the n-th.
present_loop(n) ==
  WhileP(MapP(MapP(Present("pure", Value(Unit), Value(Unit)), Fn("sum_counter")),
              test_loop_end(n)))

AbsentPrograms ==
  {present_loop_forever}
  \cup {present_loop(n) : n \in Iterations}
  \cup {JoinP(Delay(d1, Present("pure", Value("p_if"), Value("p_else"))), Delay(d2, b))
          : d1 \in Delays, d2 \in Delays,
            b \in {Present("pure", Value("p_if"), Value("p_else")), Emit("pure")}}

InitAbsent ==
  \E p \in AbsentPrograms : InitWith("execute_process", p, MainContinuation(p))

NextProcess ==
  \/ current_instant
  \/ end_of_instant
  \/ move_to_next_instant
  \/ execute_process_return

SpecAbsent == InitAbsent /\ [][NextProcess]_vars

-----------------------------------------------------------------------------
(* The pools handing out their continuations in any order, run on joins of *)
(* processes that test, await and emit signals in the same instants; and   *)
(* the run of execute_process with the pools of the code, as a function of *)
(* the program.                                                            *)

\* Two processes side by side, each started after a delay: present and
\* emit on a pure signal, emit_value and await on a signal gathering a vector.
OrderPrograms ==
  {JoinP(Delay(d1, a), Delay(d2, b))
     : d1 \in Delays, d2 \in Delays,
       a \in {Present("pure", Value("p_if"), Value("p_else")), Emit("pure")},
       b \in {Present("pure", Value("p_if"), Value("p_else")), AwaitImmediate("pure")}}
  \cup
  {Join3(Delay(d1, EmitValue("vec", 1)), Delay(d2, EmitValue("vec", 2)), Delay(d3, Await("vec")))
     : d1 \in Delays, d2 \in Delays, d3 \in Delays}

InitOrder ==
  \E p \in OrderPrograms : InitWith("execute_process", p, MainContinuation(p))

SpecOrder == InitOrder /\ [][NextAnyOrder]_vars

\* The machine execute_process(p) starts from.
InitialMachine(p) ==
  [ cur |-> <<MainContinuation(p)>>, eoi |-> << >>, nxt |-> << >>,
    sig |-> [s \in Signals |-> SignalRuntime_new(s)], heap |-> << >>,
    ret |-> None, env |-> InitialEnv, panic |-> "",
    instant |-> 1, hist |-> << >>, nid |-> 1, todo |-> << >>, phase |-> "current" ]

RECURSIVE ExecuteLifo(_, _)
\* Runtime::execute and the unwrap of execute_process, each pool popped from
\* its end as Vec::pop does; ending is TRUE once the current tasks of the
\* instant have been exhausted.
ExecuteLifo(M, ending) ==
  IF M.panic # "" THEN M
  ELSE IF ~ ending /\ M.cur # << >>
  THEN ExecuteLifo(Run(Call(M.cur[Len(M.cur)], Unit,
                            [M EXCEPT !.cur = SubSeq(@, 1, Len(@) - 1),
                                      !.phase = "current"])), FALSE)
  ELSE IF M.eoi # << >>
  THEN ExecuteLifo(Run(Call(M.eoi[Len(M.eoi)], Unit,
                            [M EXCEPT !.eoi = SubSeq(@, 1, Len(@) - 1),
                                      !.phase = "end_of_instant"])), TRUE)
  ELSE IF M.nxt # << >>
  THEN ExecuteLifo([M EXCEPT !.cur = M.nxt, !.nxt = << >>, !.instant = @ + 1], FALSE)
  ELSE IF M.ret.some THEN [M EXCEPT !.cur = << >>]
  ELSE Halt([M EXCEPT !.cur = << >>], "unwrap_none:return_value")

-----------------------------------------------------------------------------
(* Reading the history.                                                    *)

Evs(ev, what) == {i \in 1..Len(hist) : hist[i].ev = ev /\ hist[i].what = what}

\* The events of kind ev/what that belong to registration or closure id.
EvsOf(ev, what, id) == {i \in Evs(ev, what) : hist[i].id = id}

\* s was emitted during instant j (as far as the run has gone).
EmittedIn(s, j) == \E i \in Evs("emit", "first") : hist[i].s = s /\ hist[i].at = j

\* The current phase of instant j has run to its end.
CurrentPhaseOver(j) ==
  \/ instant > j
  \/ instant = j /\ pc \in {"end_of_instant", "idle", "returned", "done"}

\* j is the first instant from i on in which s is emitted.
FirstEmission(s, i, j) ==
  /\ j >= i
  /\ EmittedIn(s, j)
  /\ \A k \in i..(j - 1) : ~ EmittedIn(s, k)

RECURSIVE PauseDepth(_)
\* Number of pause() wrappers of a chain of value, map and pause, or of a seed.
PauseDepth(t) ==
  CASE t.kind \in {"pause"} -> 1 + PauseDepth(t.process)
    [] t.kind \in {"map"}   -> PauseDepth(t.process)
    [] t.kind = "Pause"     -> 1 + PauseDepth(t.continuation)
    [] OTHER                -> 0

-----------------------------------------------------------------------------
(* C1: a continuation wrapped by pause() and called in instant i is        *)
(* invoked with its value in instant i+1 exactly: never during i, never in *)
(* i+2 or later (once the current phase of i+1 is over it has run, unless  *)
(* the program halted before), and at most once.  Hence n nested pause()   *)
(* defer by exactly n instants: a chain of value, map and n pauses         *)
(* returns in instant n+1, and a seed closure under n pauses runs in       *)
(* instant n+1.                                                            *)
C1_PauseDefersExactlyOneInstant ==
  /\ \A i \in Evs("paused", "") :
       LET resumed == EvsOf("resumed", "", hist[i].id)
       IN  /\ \A j \in resumed : hist[j].at = hist[i].at + 1 /\ hist[j].v = hist[i].v
           /\ Cardinality(resumed) <= 1
           /\ CurrentPhaseOver(hist[i].at + 1) => resumed # {}
  /\ \A j \in Evs("return", "") :
       program \in ChainPrograms => hist[j].at = PauseDepth(program) + 1
  /\ \A j \in Evs("flag", "") :
       driver = "runtime" => hist[j].at = PauseDepth(program) + 1

\* value(21).pause().pause() has returned 21 in instant 3, and the seed of
\* wait_two_instants has set its flag in instant 3.
C1_Witness ==
  \/ /\ program = PauseN(2, Value(21))
     /\ pc = "done"
     /\ return_value = Some(21)
     /\ instant = 3
  \/ /\ program = PauseKN(2, FlagClosure)
     /\ env.flag = 42
     /\ instant = 3

-----------------------------------------------------------------------------
(* The registrations of present.                                           *)

PresentRegs == Evs("reg", "present")

\* The instant in which registration id was made.
RegisteredAt(id) == hist[CHOOSE i \in Evs("reg", "present") : hist[i].id = id].at

\* The invocations of the two closures of the present registered as id.
PresentRuns(id) == EvsOf("run", "present_if", id) \cup EvsOf("run", "present_else", id)

(* C2: for a present started in any instant, whatever is emitted in later  *)
(* instants, the shared cell owning the outer continuation is taken once:  *)
(* at most one of the two closures is ever invoked, and no closure finds   *)
(* the cell already empty.                                                 *)
C2_PresentTakesContinuationOnce ==
  /\ panic # "unwrap_none:present_next"
  /\ \A r \in PresentRegs : Cardinality(PresentRuns(hist[r].id)) <= 1

(* C3: absent exclusion.  No later_on_absent continuation registered on S  *)
(* during an instant in which S is emitted is ever invoked.                *)
C3_AbsentExclusion ==
  \A e \in Evs("run", "present_else") :
    ~ EmittedIn(hist[e].s, RegisteredAt(hist[e].id))

(* C4: when present is started in instant I and S is not emitted during I, *)
(* p_else is run in instant I+1, not later.                                *)
C4_ElseRunsInNextInstant ==
  \A e \in Evs("branch", "p_else") :
    ~ EmittedIn(hist[e].s, RegisteredAt(hist[e].id))
      => hist[e].at = RegisteredAt(hist[e].id) + 1

(* C5: when present(S, p_if, p_else) and emit(S) are run in the same       *)
(* instant, in either order, p_if is run in that instant (it has run once  *)
(* the current phase of the instant is over) and p_else is never run.      *)
C5_PresentWithEmitRunsIf ==
  \A r \in PresentRegs :
    EmittedIn(hist[r].s, hist[r].at) =>
      /\ EvsOf("branch", "p_else", hist[r].id) = {}
      /\ \A e \in EvsOf("branch", "p_if", hist[r].id) : hist[e].at = hist[r].at
      /\ Cardinality(EvsOf("branch", "p_if", hist[r].id)) <= 1
      /\ CurrentPhaseOver(hist[r].at) => EvsOf("branch", "p_if", hist[r].id) # {}

\* Both orders have been run to the end: the present registered before the
\* emission of its instant, and after it, each with p_if run in that instant.
C5_Witness ==
  /\ pc \in {"done", "panicked"}
  /\ \E r1, r2 \in PresentRegs :
       /\ hist[r1].at = hist[r2].at
       /\ \E e \in Evs("emit", "first") :
            /\ hist[e].at = hist[r1].at
            /\ r1 < e
            /\ e < r2
       /\ \A r \in {r1, r2} :
            \E b \in EvsOf("branch", "p_if", hist[r].id) : hist[b].at = hist[r].at

-----------------------------------------------------------------------------
(* C6: in join(emit(S), await_immediate(S)) and join(await_immediate(S),   *)
(* emit(S)) (tests emit_and_await_immediate, await_immediate_and_emit) the *)
(* continuation of emit runs before the one of await_immediate: no         *)
(* assert_eq! of the three closures fails, received is never set before    *)
(* emitted, and the join continuation runs, in instant 1, with both set.   *)
C6Programs ==
  { MapP(JoinP(process_emit, process_await), Fn("check_joined")),
    MapP(JoinP(process_await, process_emit), Fn("check_joined")) }

C6_EmitBeforeAwaitImmediate ==
  program \in C6Programs =>
    /\ panic = ""
    /\ env.received => env.emitted
    /\ env.checked => env.emitted /\ env.received
    /\ CurrentPhaseOver(1) => env.checked /\ return_value = Some(Unit)
    /\ instant = 1

\* The await-first order has run to its end.
C6_Witness ==
  /\ program = MapP(JoinP(process_await, process_emit), Fn("check_joined"))
  /\ pc = "done"
  /\ env.emitted /\ env.received /\ env.checked

-----------------------------------------------------------------------------
(* C7: the continuation of await_immediate(S) started in instant i runs in *)
(* the first instant j >= i in which S is emitted (i itself if S is or     *)
(* becomes present during i), before the current phase of j ends, once,    *)
(* and in no other instant.                                                *)
C7_AwaitImmediateRunsAtFirstPresence ==
  \A r \in Evs("reg", "await_immediate") :
    LET runs == EvsOf("run", "await_immediate", hist[r].id)
    IN  /\ \A e \in runs : FirstEmission(hist[r].s, hist[r].at, hist[e].at)
        /\ Cardinality(runs) <= 1
        /\ \A j \in hist[r].at..instant :
             FirstEmission(hist[r].s, hist[r].at, j) /\ CurrentPhaseOver(j) => runs # {}

\* An await_immediate registered in an instant without emission has been
\* served in a later instant, and another one in the instant of its registration.
C7_Witness ==
  /\ \E r \in Evs("reg", "await_immediate") :
       \E e \in EvsOf("run", "await_immediate", hist[r].id) : hist[e].at > hist[r].at
  /\ \E r \in Evs("reg", "await_immediate") :
       \E e \in EvsOf("run", "await_immediate", hist[r].id) : hist[e].at = hist[r].at

-----------------------------------------------------------------------------
(* C8: the continuation of await(S) registered in instant i runs in        *)
(* instant j+1, j >= i the first instant in which S is emitted (registered *)
(* before or after the emission inside j), once, and receives the value S  *)
(* had gathered when j ended, even if S is emitted again in j+1 before it  *)
(* runs.                                                                   *)
C8_AwaitRunsInstantAfterEmission ==
  \A r \in Evs("reg", "await") :
    LET runs == EvsOf("run", "await", hist[r].id)
    IN  /\ \A e \in runs :
             /\ hist[e].at > 1
             /\ FirstEmission(hist[r].s, hist[r].at, hist[e].at - 1)
             /\ hist[e].v = gathered[hist[e].at - 1][hist[r].s]
        /\ Cardinality(runs) <= 1
        /\ \A j \in hist[r].at..instant :
             FirstEmission(hist[r].s, hist[r].at, j) /\ CurrentPhaseOver(j + 1) => runs # {}

\* An await registered after the emission of its instant has received that
\* instant's value in the next instant, after S was emitted again there.
C8_Witness ==
  \E r \in Evs("reg", "await") :
    \E e1, e2 \in Evs("emit", "first") :
      /\ hist[e1].at = hist[r].at /\ e1 < r
      /\ hist[e2].at = hist[r].at + 1
      /\ \E e \in EvsOf("run", "await", hist[r].id) :
           /\ e2 < e
           /\ hist[e].at = hist[r].at + 1
           /\ hist[e].v = <<hist[e1].v>>
           /\ hist[e2].v # hist[e1].v

-----------------------------------------------------------------------------
(* C9: instant atomicity.  All the continuations that react, through       *)
(* await, to the presence of S in one instant receive the same value,      *)
(* whatever the order of their registration and dispatch.                  *)
C9_AwaitReactorsAgree ==
  \A e1, e2 \in Evs("run", "await") :
    hist[e1].s = hist[e2].s /\ hist[e1].at = hist[e2].at => hist[e1].v = hist[e2].v

\* Two awaits, one registered before the emission and one after it, have
\* both been served, on either side of a new emission in the next instant.
C9_Witness ==
  \E e1, e2 \in Evs("run", "await") :
    /\ e1 < e2
    /\ hist[e1].at = hist[e2].at
    /\ hist[e1].v = hist[e2].v
    /\ \E x \in Evs("emit", "first") : e1 < x /\ x < e2

-----------------------------------------------------------------------------
(* C10: when a value signal is emitted several times during one instant,   *)
(* the gathered value of the instant is the fold of the gather function    *)
(* over all the emissions, from the default value, and await delivers that *)
(* fold in the following instant.                                          *)

RECURSIVE EmissionsIn(_, _, _)
\* The values of the emit calls on s during instant j among the first n events.
EmissionsIn(s, j, n) ==
  IF n = 0 THEN << >>
  ELSE LET rest == EmissionsIn(s, j, n - 1)
       IN  IF hist[n].ev = "emit" /\ hist[n].s = s /\ hist[n].at = j
           THEN Append(rest, hist[n].v)
           ELSE rest

RECURSIVE FoldGather(_, _)
FoldGather(s, es) ==
  IF es = << >> THEN DefaultValue(s)
  ELSE GatherFunction(s, es[Len(es)], FoldGather(s, SubSeq(es, 1, Len(es) - 1)))

C10_GatherFoldsAllEmissions ==
  /\ \A j \in 1..Len(gathered) :
       gathered[j]["vec"] = FoldGather("vec", EmissionsIn("vec", j, Len(hist)))
  /\ \A e \in Evs("run", "await") :
       hist[e].at > 1 =>
         hist[e].v = FoldGather(hist[e].s, EmissionsIn(hist[e].s, hist[e].at - 1, Len(hist)))

-----------------------------------------------------------------------------
-----------------------------------------------------------------------------
(* Reading the history of the join points.                                 *)

JoinPoints == {hist[i].id : i \in Evs("join", "side")}

\* x and y are the same value (values of different shapes are different).
Same(x, y) == ToString(x) = ToString(y)

\* The completions of one side of join point jp, and the invocations of its
\* outer continuation.
JoinSide(jp, side) == {i \in EvsOf("join", "side", jp) : hist[i].v[1] = side}
JoinNext(jp) == EvsOf("join", "next", jp)

(* C12: for join(p1, p2), in whatever order the two sub-processes          *)
(* complete (in the same instant or not, p1 first or p2 first), the outer  *)
(* continuation is invoked once, after both have produced their values,    *)
(* with the pair (value of p1, value of p2); once both have completed it   *)
(* has been invoked, and its cell is never found empty.                    *)
C12_JoinCallsNextOnceWithPair ==
  /\ panic # "unwrap_none:join_next"
  /\ \A jp \in JoinPoints :
       /\ Cardinality(JoinNext(jp)) <= 1
       /\ \A n \in JoinNext(jp) :
            \E a \in JoinSide(jp, 1), b \in JoinSide(jp, 2) :
              /\ a < n
              /\ b < n
              /\ Same(hist[n].v, <<hist[a].v[2], hist[b].v[2]>>)
       /\ JoinSide(jp, 1) # {} /\ JoinSide(jp, 2) # {} => JoinNext(jp) # {}

\* One run has completed a join whose second process finished first, in an
\* earlier instant than the first, and a join whose first process finished
\* first, in the same instant as the second; both passed their pair on.
C12_Witness ==
  \E jp1, jp2 \in JoinPoints :
    /\ \E a \in JoinSide(jp1, 1), b \in JoinSide(jp1, 2), n \in JoinNext(jp1) :
         /\ b < a
         /\ hist[b].at < hist[a].at
         /\ ~ Same(hist[a].v[2], hist[b].v[2])
         /\ Same(hist[n].v, <<hist[a].v[2], hist[b].v[2]>>)
    /\ \E a \in JoinSide(jp2, 1), b \in JoinSide(jp2, 2), n \in JoinNext(jp2) :
         /\ a < b
         /\ hist[b].at = hist[a].at
         /\ Same(hist[n].v, <<hist[a].v[2], hist[b].v[2]>>)

-----------------------------------------------------------------------------
(* C13: for pure processes p and q completing after m and n instants,      *)
(* join(p, q) yields (a, b) and join(q, p) yields (b, a), and execute runs *)
(* exactly max(m, n) instants; value(10).join(value(32).pause().pause()    *)
(* .pause()).map(sum) returns 42 after exactly 4 instants.                 *)

RECURSIVE ValueOf(_)
\* The value held by a chain value(v).pause()...pause().
ValueOf(t) == IF t.kind = "value" THEN t.value ELSE ValueOf(t.process)

Max(a, b) == IF a >= b THEN a ELSE b

\* The test join_sum_with_delay.
join_sum_with_delay == MapP(JoinP(Value(10), PauseN(3, Value(32))), Fn("sum"))

C13_JoinTakesMaxInstants ==
  program \in JoinPrograms \cup {join_sum_with_delay} =>
    LET join     == IF program.kind = "map" THEN program.process ELSE program
        n        == Max(PauseDepth(join.process_1), PauseDepth(join.process_2)) + 1
        a        == ValueOf(join.process_1)
        b        == ValueOf(join.process_2)
        expected == IF program.kind = "map" THEN a + b ELSE <<a, b>>
    IN  /\ panic = ""
        /\ instant <= n
        /\ \A r \in Evs("return", "") : hist[r].at = n /\ hist[r].v = expected
        /\ pc \in {"returned", "done"} => instant = n /\ return_value = Some(expected)

\* join_sum_with_delay has returned 42 and execute has stopped after 4 instants.
C13_Witness ==
  /\ program = join_sum_with_delay
  /\ pc = "done"
  /\ instant = 4
  /\ return_value = Some(42)

-----------------------------------------------------------------------------
(* C14: execute_process(value(v)) returns v and the runtime runs exactly   *)
(* one instant: the first call to instant() reports that no work remains   *)
(* and execute stops.                                                      *)
C14_ValueReturnsInOneInstant ==
  program.kind = "value" =>
    /\ panic = ""
    /\ instant = 1
    /\ next_instant_tasks = << >>
    /\ pc \in {"current", "returned", "done"}
    /\ pc \in {"returned", "done"} =>
         /\ return_value = Some(program.value)
         /\ current_instant_tasks = << >>

\* execute_process(value(42)) has returned 42 after its only instant.
C14_Witness ==
  /\ program = Value(42)
  /\ pc = "done"
  /\ instant = 1
  /\ return_value = Some(42)
  /\ Cardinality(Evs("return", "")) = 1

-----------------------------------------------------------------------------
(* C15: for a chain built from value(v), map and k pause(), execute_process*)
(* returns the composition of the map functions applied to v and runs      *)
(* exactly k+1 instants (map adds none): value(21).map(double) returns 42  *)
(* in 1 instant, value(21).pause().map(double).pause() returns 42 in 3.    *)

RECURSIVE ChainValue(_)
\* The value a chain of value, map(double) and pause is to return.
ChainValue(t) ==
  CASE t.kind = "value" -> t.value
    [] t.kind = "pause" -> ChainValue(t.process)
    [] t.kind = "map"   -> 2 * ChainValue(t.process)

C15_ChainReturnsComposition ==
  program \in ChainPrograms =>
    LET k == PauseDepth(program)
    IN  /\ panic = ""
        /\ instant <= k + 1
        /\ \A r \in Evs("return", "") :
             hist[r].at = k + 1 /\ hist[r].v = ChainValue(program)
        /\ pc \in {"returned", "done"} =>
             instant = k + 1 /\ return_value = Some(ChainValue(program))

\* map_and_pause_to_multiply has returned 42 after 3 instants.
C15_Witness ==
  /\ program = PauseP(MapP(PauseP(Value(21)), Fn("double")))
  /\ pc = "done"
  /\ instant = 3
  /\ return_value = Some(42)

-----------------------------------------------------------------------------
(* C16: while_loop runs its inner process again once per Continue and      *)
(* stops at the first Exit(t), handing t to the outer continuation once;   *)
(* when the body does not pause every iteration happens in the instant in  *)
(* which the loop started.  The counter body exiting at 42 runs 42 times,  *)
(* leaves the cell at 42 and returns 42.                                   *)

\* The iterations that ended so far, each with the status it produced.
Loops == {i \in 1..Len(hist) : hist[i].ev = "loop"}

\* The number the counting loop counts to.
LoopBound ==
  LET body == IF program.process.kind = "pause" THEN program.process.process
                                                ELSE program.process
  IN  body.function.captured

C16_WhileLoopRunsUntilExit ==
  program \in CountPrograms =>
    LET exits   == Evs("loop", "Exit")
        returns == Evs("return", "")
    IN  /\ panic = ""
        \* one run of the body per iteration, each but the last one a Continue
        \* (a body that pauses has counted before its iteration ends)
        /\ env.counter \in {Cardinality(Loops), Cardinality(Loops) + 1}
        /\ program = count_using_while(LoopBound) => env.counter = Cardinality(Loops)
        /\ Cardinality(exits) <= 1
        /\ \A x \in exits : \A i \in Loops : i <= x
        /\ \A x \in exits : hist[x].v = LoopBound /\ env.counter = LoopBound
        \* the outer continuation is called once, with the output of the Exit
        /\ Cardinality(returns) <= 1
        /\ \A r \in returns : \E x \in exits : x < r /\ hist[r].v = hist[x].v
        /\ exits # {} => returns # {}
        /\ program = count_using_while(LoopBound) =>
             /\ instant = 1
             /\ \A i \in Loops : hist[i].at = 1
        /\ pc \in {"returned", "done"} =>
             /\ Cardinality(Loops) = LoopBound
             /\ env.counter = LoopBound
             /\ return_value = Some(LoopBound)

\* count_using_while has run its body 42 times in instant 1 and returned 42.
C16_Witness ==
  /\ program = count_using_while(CountTo)
  /\ pc = "done"
  /\ instant = 1
  /\ Cardinality(Evs("loop", "Continue")) = 41
  /\ Cardinality(Evs("loop", "Exit")) = 1
  /\ env.counter = 42
  /\ return_value = Some(42)

-----------------------------------------------------------------------------
(* C17: for the loop join(await(S).map(add to cell), emit_value(S, c)      *)
(* .pause()).map(count).while_loop() on a signal with default 0 and        *)
(* gather(e, v) {*v = e}, in whatever order the pools hand out their       *)
(* continuations: iteration i starts in instant i and ends in instant i+1, *)
(* its await receives the value c emitted in instant i, and after n        *)
(* iterations the loop exits with the cell at n*c (42 for n = 14, c = 3).  *)

\* The rank of event i among the events of S.
Rank(i, S) == Cardinality({j \in S : j <= i})

\* The number of iterations and the value emitted by the loop over a signal.
SignalLoopBound == program.process.function.captured
SignalLoopValue == program.process.process.process_2.process.value

InstantTasks(j) == {t \in Evs("task", "current") \cup Evs("task", "end_of_instant") : hist[t].at = j}

C18_InstantReturnsWorkRemaining ==
  \A r \in Evs("instant", "returned") :
    /\ hist[r].v.work_remains = (hist[r].v.current > 0)
    /\ hist[r].v.work_remains = (hist[r].v.next > 0)
    /\ \A c \in Evs("instant", "called") :
         (hist[c].at = hist[r].at /\ hist[c].v = <<0, 0, 0>>)
             => (InstantTasks(hist[r].at) = {} /\ ~ hist[r].v.work_remains)

\* instant() has returned true once, and then false from three empty pools.
C18_Witness ==
  /\ \E r \in Evs("instant", "returned") : hist[r].v.work_remains
  /\ \E r \in Evs("instant", "returned"), c \in Evs("instant", "called") :
       /\ hist[c].at = hist[r].at
       /\ hist[c].v = <<0, 0, 0>>
       /\ ~ hist[r].v.work_remains


\* ---------------------------------------------------------------------------
\* C19: no end-of-instant continuation is invoked while the current pool is
\* non-empty, also when an earlier end-of-instant continuation of the same
\* instant has registered work with the current pool.
C19_EndOfInstantAfterCurrent ==
  \A t \in Evs("task", "end_of_instant") : hist[t].v[1] = 0


\* ---------------------------------------------------------------------------
\* C20: every continuation that an end-of-instant callback registers with the
\* current pool or with the end_of_instant pool is invoked within that same
\* instant, before the clock tick.
PushedAtEndOfInstant(pool) == {p \in Evs("push", pool) : hist[p].s = "end_of_instant"}

RunBeforeTick(p) ==
  \A r \in Evs("instant", "returned") :
    hist[r].at = hist[p].at
        => \E u \in Evs("run", "client") : p < u /\ u < r /\ hist[u].id = hist[p].id

C20_EndOfInstantPushesRunBeforeTick ==
  \A p \in PushedAtEndOfInstant("current") \cup PushedAtEndOfInstant("end_of_instant") :
    RunBeforeTick(p)

\* The half the code keeps: a continuation registered with the end_of_instant
\* pool by an end-of-instant callback is invoked before the tick.
C20_EndOfInstantPoolPushesRun ==
  \A p \in PushedAtEndOfInstant("end_of_instant") : RunBeforeTick(p)


-----------------------------------------------------------------------------
(* C21: at-most-once dispatch.  Every continuation handed to one of the    *)
(* three pools or registered on a signal is invoked at most once: the      *)
(* closure of a pause, the continuation of an await or await_immediate,    *)
(* each of the two closures of a present, a closure registered by hand,    *)
(* the update closure of an emission and the flusher of later_on_absent.   *)

\* The tasks of a given kind taken from the pools for signal s in instant j.
TasksOf(kind, s, j) ==
  {t \in Evs("task", "current") \cup Evs("task", "end_of_instant") :
     hist[t].id = kind /\ hist[t].s = s /\ hist[t].at = j}

C21_AtMostOnceDispatch ==
  /\ \A i \in Evs("paused", "") : Cardinality(EvsOf("resumed", "", hist[i].id)) <= 1
  /\ \A r \in Evs("reg", "await") : Cardinality(EvsOf("run", "await", hist[r].id)) <= 1
  /\ \A r \in Evs("reg", "await_immediate") :
       Cardinality(EvsOf("run", "await_immediate", hist[r].id)) <= 1
  /\ \A r \in Evs("reg", "present") :
       /\ Cardinality(EvsOf("run", "present_if", hist[r].id)) <= 1
       /\ Cardinality(EvsOf("run", "present_else", hist[r].id)) <= 1
  /\ \A name \in {"a", "b", "c", "d"} : Cardinality(EvsOf("run", "client", name)) <= 1
  /\ \A s \in Signals, j \in 1..instant :
       /\ Cardinality(TasksOf("update_on_end_of_instant", s, j))
            <= Cardinality({e \in Evs("emit", "first") : hist[e].s = s /\ hist[e].at = j})
       /\ Cardinality(TasksOf("later_on_absent_closure", s, j)) <= 1
  /\ Cardinality(TasksOf("main_continuation", "", 1)) <= 1

\* A run has ended in which an await_immediate registered in an earlier
\* instant, the else closure of a present and the closure of a pause were
\* each invoked; another has run a closure registered by hand in every pool.
C21_Witness ==
  \/ /\ pc = "done"
     /\ \E r \in Evs("reg", "await_immediate") :
          \E e \in EvsOf("run", "await_immediate", hist[r].id) : hist[e].at > hist[r].at
     /\ Evs("run", "present_else") # {}
     /\ Evs("resumed", "") # {}
     /\ \E s \in Signals, j \in 1..instant : TasksOf("update_on_end_of_instant", s, j) # {}
  \/ /\ pc = "idle"
     /\ \A name \in {"a", "b", "c", "d"} : EvsOf("run", "client", name) # {}


-----------------------------------------------------------------------------
(* C22: Runtime::execute returns only in a state where the current, the    *)
(* end_of_instant and the next pool are all empty, and it returns as soon  *)
(* as an instant ends with an empty next pool: it goes on to another       *)
(* instant exactly when the next pool held a continuation at the tick.     *)
C22_ExecuteReturnsWhenPoolsAreEmpty ==
  driver \in {"execute", "execute_process"} =>
    /\ pc \in {"returned", "done"} =>
         /\ current_instant_tasks = << >>
         /\ end_of_instant_tasks = << >>
         /\ next_instant_tasks = << >>
    /\ \A r \in Evs("instant", "returned") :
         IF hist[r].v.next = 0
         THEN /\ instant = hist[r].at
              /\ pc \in {"returned", "done", "panicked"}
         ELSE /\ instant > hist[r].at
              /\ \E c \in Evs("instant", "called") : c = r + 1 /\ hist[c].at = hist[r].at + 1

\* execute has returned after three instants, and it has returned after an
\* instant whose end-of-instant phase left a continuation in the current pool.
C22_Witness ==
  /\ driver = "execute"
  /\ pc = "done"
  /\ \/ instant = 3
     \/ PushedAtEndOfInstant("current") # {}


-----------------------------------------------------------------------------
(* C23: execute_process has no failure outcome.  For every process built   *)
(* from the combinators, also one that awaits a signal that is never       *)
(* emitted, whenever execute returns the terminal continuation has written *)
(* the result cell, so that a value is returned and execution does not     *)
(* halt on an empty cell.                                                  *)
C23_ExecuteProcessNeverFails ==
  driver = "execute_process" =>
    /\ pc = "returned" => return_value.some
    /\ panic # "unwrap_none:return_value"


-----------------------------------------------------------------------------
(* C24: determinism under pool ordering.  For a program built from the     *)
(* combinators, the value returned, the instant in which each branch and   *)
(* each awaiting continuation runs, and the absence of a halt are the same *)
(* for every order in which continuations are removed from a pool: a run   *)
(* with any removal order ends as the run popping each pool from its end.  *)

\* What a finished run shows: the result, whether it halted, and which branch
\* or awaiting continuation ran in which instant with which value.
Outcome(ret, halted, h) ==
  [ value    |-> ret,
    halted   |-> halted,
    ran      |-> {<<h[i].ev, h[i].what, h[i].s, h[i].at, ToString(h[i].v)>> :
                    i \in {j \in 1..Len(h) : h[j].ev \in {"branch", "run", "return"}}} ]

OutcomeOfRun == Outcome(return_value, panic # "", hist)

OutcomeLifo(p) ==
  LET M == ExecuteLifo(InitialMachine(p), FALSE)
  IN  Outcome(M.ret, M.panic # "", M.hist)

-----------------------------------------------------------------------------
(* C25: the process returned by pause() waits one instant before running.  *)
(* When emit(S).pause() is invoked in instant i, the emission happens in   *)
(* instant i+1 and not in instant i.                                       *)
C25_PauseDelaysInnerProcess ==
  \A d \in Delays :
    program = PausedEmit(d) =>
      \A e \in Evs("emit", "first") : hist[e].at = (d + 1) + 1

\* What the code does: the emission happens in the instant of the invocation
\* and the value of the process is handed over in the following instant.
C25_PauseDelaysValueOnly ==
  \A d \in Delays :
    program = PausedEmit(d) =>
      /\ \A e \in Evs("emit", "first") : hist[e].at = d + 1
      /\ \A r \in Evs("return", "") : hist[r].at = d + 2 /\ Evs("emit", "first") # {}


-----------------------------------------------------------------------------
(* C26: every later_on_absent continuation registered on S in an instant   *)
(* during which S is never emitted is eventually invoked, also when it is  *)
(* registered after an earlier absent flusher of S has run: the loop       *)
(* present(S, p_if, p_else).map(Continue).while_loop() on a never-emitted  *)
(* S runs p_else in every iteration and never leaves its continuation     *)
(* stranded in the queue of later_on_absent.                               *)

\* Registration id of present was made in an instant whose current phase is
\* over and in which its signal was not emitted.
RegisteredWhileAbsent(r) ==
  /\ CurrentPhaseOver(hist[r].at)
  /\ ~ EmittedIn(hist[r].s, hist[r].at)

ElseInvoked(id) == EvsOf("run", "present_else", id) # {}

\* The flusher of the later_on_absent queue of s is waiting in a pool.
FlusherWaiting(s) ==
  \/ \E i \in 1..Len(next_instant_tasks) : next_instant_tasks[i] = LaterOnAbsentClosure(s)
  \/ \E i \in 1..Len(current_instant_tasks) :
       current_instant_tasks[i] = LaterOnAbsentClosure(s)

\* While the program runs, a continuation waiting in the queue has a flusher
\* on its way; and when execute returns, every registration made while the
\* signal was absent has been invoked.
C26_AbsentContinuationEventuallyInvoked ==
  /\ \A s \in Signals :
       (pc \in {"current", "end_of_instant"}
          /\ signal_runtime[s].call_later_on_absent # << >>) => FlusherWaiting(s)
  /\ pc \in {"returned", "done"} =>
       \A r \in PresentRegs : RegisteredWhileAbsent(r) => ElseInvoked(hist[r].id)

-----------------------------------------------------------------------------
(* The start of an instant: instant() has been called and no task of the   *)
(* instant has been taken yet.                                             *)
InstantStart == hist[Len(hist)].ev = "instant" /\ hist[Len(hist)].what = "called"

(* C27: the guard of the absent flusher (call_later_on_absent_registered)  *)
(* is cleared on emission and at end-of-instant: at the start of every     *)
(* instant it is false for every signal, whether or not the signal was     *)
(* emitted in the previous instant.                                        *)
C27_AbsentGuardClearAtInstantStart ==
  InstantStart => \A s \in Signals : ~ signal_runtime[s].call_later_on_absent_registered


-----------------------------------------------------------------------------
(* C28: for every signal, the queues call_on_present and                   *)
(* call_later_on_present are empty at the start of every instant, whether  *)
(* or not the signal was emitted during the previous instant.              *)
PresentQueuesEmpty(s) ==
  /\ signal_runtime[s].call_on_present = << >>
  /\ signal_runtime[s].call_later_on_present = << >>

C28_PresentQueuesEmptyAtInstantStart ==
  InstantStart => \A s \in Signals : PresentQueuesEmpty(s)

\* What the code keeps: at the start of an instant that follows an instant in
\* which the signal was emitted both queues are empty (in the first instant too);
\* a continuation registered while the signal was absent stays queued over
\* the following instants until the signal is emitted.
C28_PresentQueuesEmptyAfterEmission ==
  /\ InstantStart =>
       \A s \in Signals : (instant = 1 \/ EmittedIn(s, instant - 1)) => PresentQueuesEmpty(s)
  /\ \A r \in Evs("reg", "await_immediate") :
       (EvsOf("run", "await_immediate", hist[r].id) = {}
          /\ \A j \in hist[r].at..instant : ~ EmittedIn(hist[r].s, j))
         => \E i \in 1..Len(signal_runtime[hist[r].s].call_on_present) :
              signal_runtime[hist[r].s].call_on_present[i].id = hist[r].id
  /\ \A r \in Evs("reg", "await") :
       (EvsOf("run", "await", hist[r].id) = {}
          /\ \A j \in hist[r].at..instant : ~ EmittedIn(hist[r].s, j))
         => \E i \in 1..Len(signal_runtime[hist[r].s].call_later_on_present) :
              signal_runtime[hist[r].s].call_later_on_present[i].id = hist[r].id

-----------------------------------------------------------------------------
(* C29: at the start of every instant, previous_value of a signal equals   *)
(* the value gathered during the immediately preceding instant and         *)
(* current_value equals the default value, after an instant with an        *)
(* emission as after an instant without one.                               *)
C29_PreviousValueIsLastInstantsValue ==
  (InstantStart /\ instant > 1) =>
    \A s \in Signals :
      /\ signal_runtime[s].current_value = DefaultValue(s)
      /\ signal_runtime[s].previous_value = Some(gathered[instant - 1][s])

\* What the code keeps: current_value is the default at the start of every
\* instant, and previous_value is the value gathered in the preceding instant
\* when the signal was emitted in it.
C29_PreviousValueAfterEmission ==
  InstantStart =>
    \A s \in Signals :
      /\ signal_runtime[s].current_value = DefaultValue(s)
      /\ (instant > 1 /\ EmittedIn(s, instant - 1))
           => signal_runtime[s].previous_value = Some(gathered[instant - 1][s])

-----------------------------------------------------------------------------
(* C30: in every state observed between two continuation invocations, a    *)
(* signal whose emitted flag is false has current_value equal to its       *)
(* default value.                                                          *)
C30_NotEmittedHoldsDefault ==
  \A s \in Signals :
    ~ signal_runtime[s].is_currently_emitted
        => signal_runtime[s].current_value = DefaultValue(s)

\* The end-of-instant update of a signal that had gathered <<1>> has run: the
\* flag is down, the value is saved as previous_value and current_value is
\* the default again.
C30_Witness ==
  /\ ~ signal_runtime["vec"].is_currently_emitted
  /\ signal_runtime["vec"].previous_value = Some(<<1>>)
  /\ signal_runtime["vec"].current_value = << >>
  /\ gathered # << >>
  /\ gathered[Len(gathered)]["vec"] = <<1>>

-----------------------------------------------------------------------------
(* C31: presence is monotone within an instant.  Once the emitted flag of  *)
(* a signal is true during the current phase of an instant it stays true   *)
(* for every continuation run in that current phase, and the only step     *)
(* that resets it to false is the signal's end-of-instant hook, taken from *)
(* the end_of_instant pool.                                                *)

\* The task a step of the runtime has taken from a pool.
TaskOfStep == hist'[Len(hist) + 1]

C31_PresenceMonotoneWithinInstant ==
  [][\A s \in Signals :
       /\ (signal_runtime[s].is_currently_emitted /\ ~ signal_runtime'[s].is_currently_emitted)
            => /\ Len(hist') > Len(hist)
               /\ TaskOfStep.ev = "task"
               /\ TaskOfStep.what = "end_of_instant"
               /\ TaskOfStep.id = "update_on_end_of_instant"
               /\ TaskOfStep.s = s
       /\ (pc' = "current" /\ EmittedIn(s, instant)')
            => signal_runtime'[s].is_currently_emitted]_vars

\* A signal was emitted, a continuation was then taken from the current pool
\* in the same instant, and the end-of-instant hook has since reset the flag.
C31_Witness ==
  \E e \in Evs("emit", "first"), t \in Evs("task", "current"),
     u \in Evs("task", "end_of_instant") :
    /\ e < t /\ t < u
    /\ hist[t].at = hist[e].at
    /\ hist[u].at = hist[e].at
    /\ hist[u].id = "update_on_end_of_instant"
    /\ hist[u].s = hist[e].s
    /\ ~ signal_runtime[hist[e].s].is_currently_emitted

-----------------------------------------------------------------------------
(* C32: for each signal and each instant, at most one flusher of           *)
(* later_on_absent is registered with the next-instant pool, however many  *)
(* later_on_absent registrations and emissions happen during the instant.  *)

\* The flushers of s waiting in the next-instant pool, which holds what was
\* registered with it since the last tick.
FlushersRegistered(s) ==
  {i \in 1..Len(next_instant_tasks) : next_instant_tasks[i] = LaterOnAbsentClosure(s)}

C32_AtMostOneFlusherPerInstant ==
  \A s \in Signals : Cardinality(FlushersRegistered(s)) <= 1

\* Two present have registered with later_on_absent and the signal has then
\* been emitted, all in the running instant, and one flusher is waiting.
C32_Witness ==
  \E s \in Signals :
    /\ Cardinality({r \in PresentRegs : hist[r].s = s /\ hist[r].at = instant}) >= 2
    /\ \E e \in Evs("emit", "first") :
         /\ hist[e].s = s /\ hist[e].at = instant
         /\ \A r \in PresentRegs : (hist[r].s = s /\ hist[r].at = instant) => r < e
    /\ Cardinality(FlushersRegistered(s)) = 1

-----------------------------------------------------------------------------
(* C33: later_on_absent called on a signal that is already emitted in the  *)
(* running instant drops the continuation: it is never invoked, and the    *)
(* queues of the signal, the guard of its flusher and the three pools of   *)
(* the runtime are left as they were.                                      *)
C33_LaterOnAbsentDropsWhenEmitted ==
  \A d \in Evs("frame", "later_on_absent") :
    /\ hist[d].v[1] = hist[d].v[2]
    /\ EvsOf("run", "present_else", hist[d].id) = {}

\* A present started after the emission of its signal, in an instant after
\* the first, while continuations were waiting in the next-instant pool; its
\* if closure has run and the program has come to its end.
C33_Witness ==
  /\ pc = "done"
  /\ \E d \in Evs("frame", "later_on_absent") :
       /\ hist[d].v[1].nxt # << >>
       /\ hist[d].at > 1
       /\ EvsOf("run", "present_if", hist[d].id) # {}

-----------------------------------------------------------------------------
-----------------------------------------------------------------------------
(* C35: the pause that can be run again keeps its pause from one iteration *)
(* to the next.  For a while_loop whose body is q.pause(), q without a     *)
(* pause, iteration k runs in instant k and hands its status over in       *)
(* instant k+1, where iteration k+1 starts: a loop that exits on its n-th  *)
(* iteration completes in n+1 instants.                                    *)
C35_PauseKeptAcrossIterations ==
  \A n \in Iterations :
    program = count_then_pause(n) =>
      \* the k-th run of the body hands its status to pause() in instant k
      /\ \A i \in Evs("paused", "") : hist[i].at = Rank(i, Evs("paused", ""))
      \* and the loop receives it, and starts the next iteration, in instant k+1
      /\ \A i \in Loops :
           /\ hist[i].at = Rank(i, Loops) + 1
           /\ hist[i].what = IF Rank(i, Loops) = n THEN "Exit" ELSE "Continue"
      /\ \A r \in Evs("return", "") : hist[r].at = n + 1 /\ hist[r].v = n
      /\ pc = "done" =>
           /\ instant = n + 1
           /\ Cardinality(Loops) = n
           /\ env.counter = n
           /\ return_value = Some(n)

\* The loop has exited on its third iteration, in the fourth instant.
C35_Witness ==
  /\ pc = "done"
  /\ \E n \in Iterations :
       /\ n >= 3
       /\ program = count_then_pause(n)
       /\ instant = n + 1
       /\ Cardinality(Loops) = n

-----------------------------------------------------------------------------
(* C36: for the join that can be run again (call_mut), in every order of   *)
(* completion of its two processes, the outer continuation is invoked once *)
(* with (join(p1', p2'), (v1, v2)), p1' and p2' the processes handed back  *)
(* by the two sides, each in its original position, and no take of the     *)
(* cells of the join point (p1, p2, the results, next) finds it empty.     *)

\* The calls of JoinProcess::call_mut, each recorded with its join point and
\* the join it was called on.
JoinCallsMut == Evs("join", "call_mut")

C36_JoinMutCallsNextOnceWithJoin ==
  /\ panic \notin {"unwrap_none:join_p1", "unwrap_none:join_p2", "unwrap_none:join_next"}
  /\ \A c \in JoinCallsMut :
       LET jp == hist[c].id
       IN  /\ Cardinality(JoinNext(jp)) <= 1
           /\ \A n \in JoinNext(jp) :
                /\ \E a \in JoinSide(jp, 1), b \in JoinSide(jp, 2) :
                     /\ a < n
                     /\ b < n
                     /\ Same(hist[n].v, <<hist[a].v[2], hist[b].v[2]>>)
                \* the process handed on is the join of the two processes, as called
                /\ hist[n + 1].ev = "join" /\ hist[n + 1].what = "rebuilt"
                /\ hist[n + 1].id = jp
                /\ Same(hist[n + 1].v, hist[c].v)
           /\ JoinSide(jp, 1) # {} /\ JoinSide(jp, 2) # {} => JoinNext(jp) # {}

\* A loop has run a join twice and come to its end: in the first iteration
\* the second process completed in an earlier instant than the first, and in
\* the second iteration, run on the join handed back, it did so again.
C36_Witness ==
  /\ pc = "done"
  /\ \E c1, c2 \in JoinCallsMut :
       /\ c1 < c2
       /\ \A c \in {c1, c2} :
            \E a \in JoinSide(hist[c].id, 1), b \in JoinSide(hist[c].id, 2) :
              /\ b < a
              /\ hist[b].at < hist[a].at
              /\ JoinNext(hist[c].id) # {}

-----------------------------------------------------------------------------
(* C37: removal from each pool is last in, first out.  Among the           *)
(* continuations waiting in the current pool, and among those waiting in   *)
(* the end_of_instant pool, the one pushed most recently is invoked first; *)
(* the continuations moved from the next pool to the current pool at the   *)
(* tick keep the order of their pushes, so that the last one pushed to     *)
(* next runs first in the new instant.                                     *)

\* The invocations of the closure registered by push event p.
RunsOfPush(p) == EvsOf("run", "client", hist[p].id)

\* q was pushed while the closure of p was still waiting, and has run before it.
RunsBefore(q, p) ==
  \A rp \in RunsOfPush(p) : q < rp => \E rq \in RunsOfPush(q) : rq < rp

C37_PoolsAreLifo ==
  \* two continuations waiting in the same pool
  /\ \A pool \in {"current", "end_of_instant"} :
       \A p \in Evs("push", pool), q \in Evs("push", pool) : p < q => RunsBefore(q, p)
  \* two continuations pushed to next in the same instant
  /\ \A p \in Evs("push", "next"), q \in Evs("push", "next") :
       (p < q /\ hist[p].at = hist[q].at) =>
          /\ RunsBefore(q, p)
          /\ \A rq \in RunsOfPush(q) : hist[rq].at = hist[q].at + 1
  \* a continuation moved from next and one pushed to current after the tick
  /\ \A p \in Evs("push", "next"), q \in Evs("push", "current") :
       hist[q].at = hist[p].at + 1 => RunsBefore(q, p)
  \* the closures of two pause() called in the same instant
  /\ \A i \in Evs("paused", ""), j \in Evs("paused", "") :
       (i < j /\ hist[i].at = hist[j].at) =>
          \A ri \in EvsOf("resumed", "", hist[i].id) :
            \E rj \in EvsOf("resumed", "", hist[j].id) : rj < ri

\* d and then b were pushed to next in instant 1; in instant 2 b has run
\* first and pushed c to current, and c has run before d.
C37_Witness ==
  \E pd \in EvsOf("push", "next", "d"), pb \in EvsOf("push", "next", "b"),
     pc_ \in EvsOf("push", "current", "c") :
    /\ pd < pb
    /\ hist[pd].at = 1 /\ hist[pb].at = 1 /\ hist[pc_].at = 2
    /\ \E rb \in RunsOfPush(pb), rc \in RunsOfPush(pc_), rd \in RunsOfPush(pd) :
         rb < pc_ /\ pc_ < rc /\ rc < rd

-----------------------------------------------------------------------------
(* C38: whenever a closure wrapping a later_on_present continuation runs,  *)
(* in the instant after an emission, previous_value of the signal is       *)
(* initialised: its read of previous_value never finds None, for every     *)
(* sequence of emissions and await registrations made by the combinators.  *)

\* The closures wrapping later_on_present continuations waiting in pool q.
Wrappers(q) == {i \in 1..Len(q) : q[i].kind = "later_on_present_closure"}

C38_PreviousValueInitialisedForAwait ==
  /\ panic # "unwrap_none:previous_value"
  \* a wrapper that the current phase is about to run finds a value
  /\ pc = "current" =>
       \A i \in Wrappers(current_instant_tasks) :
         signal_runtime[current_instant_tasks[i].signal].previous_value.some
  \* and every await that was served ran in the instant after an emission
  /\ \A u \in Evs("run", "await") : EmittedIn(hist[u].s, hist[u].at - 1)

\* Two await of one signal, one registered before its emission and one after
\* it in the same instant, have both been served; the signal has been
\* emitted again since.
C38_Witness ==
  \E r1 \in Evs("reg", "await"), r2 \in Evs("reg", "await"), e \in Evs("emit", "first") :
    /\ r1 < e /\ e < r2
    /\ hist[r1].s = hist[e].s /\ hist[r2].s = hist[e].s
    /\ hist[r1].at = hist[e].at /\ hist[r2].at = hist[e].at
    /\ EvsOf("run", "await", hist[r1].id) # {}
    /\ EvsOf("run", "await", hist[r2].id) # {}
    /\ \E e2 \in Evs("emit", "first") : hist[e2].s = hist[e].s /\ hist[e2].at > hist[e].at

-----------------------------------------------------------------------------
(* C39: the scheduler loses no work it accepted.  Every continuation       *)
(* pushed onto the next pool, at any time, is invoked once, in the         *)
(* following instant, and every continuation pushed onto the current pool  *)
(* while that pool is being drained is invoked once, in the same instant,  *)
(* as long as instant() is called again: once the current phase of that    *)
(* instant is over the continuation has run, and execute does not return   *)
(* before.                                                                 *)

\* The closure registered by push event p has run once, in instant j.
RunOnceIn(p, j) ==
  /\ Cardinality(RunsOfPush(p)) = 1
  /\ \A r \in RunsOfPush(p) : hist[r].at = j /\ p < r

\* The pushes made onto the current pool during the current phase.
PushedWhileDraining == {p \in Evs("push", "current") : hist[p].s = "current"}

C39_NoAcceptedWorkIsLost ==
  /\ \A p \in Evs("push", "next") :
       /\ \A r \in RunsOfPush(p) : hist[r].at = hist[p].at + 1
       /\ Cardinality(RunsOfPush(p)) <= 1
       /\ CurrentPhaseOver(hist[p].at + 1) => RunOnceIn(p, hist[p].at + 1)
       /\ (driver = "execute" /\ pc \in {"returned", "done"}) => RunOnceIn(p, hist[p].at + 1)
  /\ \A p \in PushedWhileDraining :
       /\ Cardinality(RunsOfPush(p)) <= 1
       /\ CurrentPhaseOver(hist[p].at) => RunOnceIn(p, hist[p].at)
  \* the closures pause() pushes onto the next pool
  /\ \A i \in Evs("paused", "") :
       /\ Cardinality(EvsOf("resumed", "", hist[i].id)) <= 1
       /\ CurrentPhaseOver(hist[i].at + 1) =>
            \E r \in EvsOf("resumed", "", hist[i].id) : hist[r].at = hist[i].at + 1
       /\ pc \in {"returned", "done"} => EvsOf("resumed", "", hist[i].id) # {}

\* execute has returned after running, in instant 2, a closure pushed onto
\* the next pool during the end-of-instant phase of instant 1, and, in
\* instant 1, a closure pushed onto the current pool during its current phase.
C39_Witness ==
  /\ driver = "execute"
  /\ pc = "done"
  /\ \E p \in EvsOf("push", "next", "c") :
       /\ hist[p].s = "end_of_instant"
       /\ hist[p].at = 1
       /\ RunOnceIn(p, 2)
  /\ \E q \in PushedWhileDraining : hist[q].id = "d" /\ RunOnceIn(q, 1)

====
